---------------------------- MODULE Spec2Model ----------------------------
(***************************************************************************)
(* IndexedDB-Utils: the content script (install_message_handlers.js), the  *)
(* background script and the extension's metadata database, as a state     *)
(* machine over one page database.                                         *)
(*                                                                         *)
(* The page database is the one the popup lists; its object stores have a  *)
(* fixed layout chosen by the page (schema).  A store holds records under  *)
(* keys; a record value is [id, data], where id = 0 stands for "the value  *)
(* has no id property".  Stores with a keyPath ("inline", "inlineAuto")    *)
(* take the key from value.id, stores without one ("out", "outAuto") keep  *)
(* the key beside the value; the "...Auto" kinds have a key generator.     *)
(*                                                                         *)
(* Store names are ordinary property names.                                *)
(***************************************************************************)
EXTENDS Integers, Sequences, FiniteSets, Bags, TLC

\* ------------------------------------------------------------------ bounds
MaxKey       == 3   \* keys are 1..MaxKey
MaxPageOps   == 1   \* record writes the page itself performs
MaxCmds      == 3   \* commands the user issues from the popup
MaxSnapshots == 2   \* snapshot commands (ids handed out by the metadata store)
MaxClock     == 1   \* Date.now() ranges over 0..MaxClock
MaxInFlight  == 2   \* content-script calls under way at the same time
MaxAdds      == 2   \* snapshots the tabs send to the metadata store
MaxVersion   == 10  \* database versions are 0..MaxVersion
MaxRuns      == 2   \* executions of read_dbs.js
MaxCount     == 1   \* records in a store of a listed database
MaxResult    == 3   \* results of a wrapped request are 0..MaxResult
MaxEntries   == 3   \* records of a store a cursor is opened on
MaxSeed      == 1   \* seeds of idbCursorEach are 0..MaxSeed
MaxConnects  == 2   \* dbConnect calls of one script
MaxInjects   == 3   \* injections of install_message_handlers.js in a window
MaxSets      == 4   \* processing notifications the background script handles

\* ------------------------------------------------------------- vocabulary
StoreOrder == <<"orders", "users">>          \* DOMStringList order (sorted)
StoreNames == {StoreOrder[i] : i \in 1..Len(StoreOrder)}
Kinds      == {"inline", "inlineAuto", "out", "outAuto"}
Keys       == 1..MaxKey
Data       == {"x", "y"}
Value      == [id : 0..MaxKey, data : Data]
Absent     == [id |-> 0, data |-> "-"]       \* no record under this key
DBNAME_PAGE == "shop"

HasKeyPath(kind)   == kind \in {"inline", "inlineAuto"}
HasGenerator(kind) == kind \in {"inlineAuto", "outAuto"}

EmptyStore == [recs |-> [k \in Keys |-> Absent], gen |-> 1]
EmptyDb    == [s \in StoreNames |-> EmptyStore]

Range(seq) == {seq[i] : i \in 1..Len(seq)}

\* objectStoreNames of a connection, as an array
SortedNames(S) == SelectSeq(StoreOrder, LAMBDA n : n \in S)

\* ------------------------------------------------- IndexedDB object stores
\* Variant: getAll(undefined, 1), at most one record
getAllFirst(recs) ==
  LET all == SelectSeq([k \in Keys |-> recs[k]], LAMBDA v : v # Absent)
  IN SubSeq(all, 1, IF Len(all) > 1 THEN 1 ELSE Len(all))

\* IDBObjectStore.getAll(): every value, in ascending key order
getAll(recs) == SelectSeq([k \in Keys |-> recs[k]], LAMBDA v : v # Absent)

\* The exception IDBObjectStore.put(value, key) throws before it queues a
\* request ("" when it throws none); key = 0 is a call without a key.
PutCheck(kind, value, key) ==
  IF HasKeyPath(kind) /\ key # 0 THEN "DataError"
  ELSE IF ~HasKeyPath(kind) /\ ~HasGenerator(kind) /\ key = 0 THEN "DataError"
  ELSE IF HasKeyPath(kind) /\ ~HasGenerator(kind) /\ value.id = 0 THEN "DataError"
  ELSE ""

\* The key a queued put stores under, when the request runs
PutKey(kind, st, value, key) ==
  IF HasKeyPath(kind) THEN (IF value.id # 0 THEN value.id ELSE st.gen)
  ELSE (IF key # 0 THEN key ELSE st.gen)

\* A queued put, run: insert or overwrite, and move the key generator on
PutExec(kind, st, value, key) ==
  LET k == PutKey(kind, st, value, key)
      stored == IF HasKeyPath(kind) THEN [value EXCEPT !.id = k] ELSE value
  IN [recs |-> [st.recs EXCEPT ![k] = stored],
      gen  |-> IF HasGenerator(kind) /\ k >= st.gen THEN k + 1 ELSE st.gen]


\* --------------------------------------------------- indexedDbUtilities.js
\* idbCursorEach(store, undefined, acc, opFn): the cursor visits the records
\* in ascending key order, from key k on; opFn is the caller's callback,
\* "delete" for (cursor, acc) => { cursor.delete(); return acc + 1 } and
\* "count" for the default (record, acc) => acc + 1.
RECURSIVE CursorWalk(_, _, _, _)
CursorWalk(recs, k, acc, opFn) ==
  IF k > MaxKey THEN [acc |-> acc, recs |-> recs]
  ELSE IF recs[k] = Absent THEN CursorWalk(recs, k + 1, acc, opFn)
  ELSE CursorWalk(IF opFn = "delete" THEN [recs EXCEPT ![k] = Absent] ELSE recs,
                  k + 1, acc + 1, opFn)

\* Variant: the cursor is not continued after its first record
idbCursorEachNoContinue(recs, acc, opFn) ==
  IF \A k \in 1..MaxKey : recs[k] = Absent THEN [acc |-> acc, recs |-> recs]
  ELSE LET first == CHOOSE k \in 1..MaxKey :
                      recs[k] # Absent /\ \A j \in 1..(k - 1) : recs[j] = Absent
       IN [acc |-> acc + 1,
           recs |-> IF opFn = "delete" THEN [recs EXCEPT ![first] = Absent] ELSE recs]

idbCursorEach(recs, acc, opFn) == CursorWalk(recs, 1, acc, opFn)

\* Variant: deleted = await idbCursorEach(...)
SetDeleted(deleted, n) == n

\* deleted += await idbCursorEach(...)
AddDeleted(deleted, n) == deleted + n

\* getOriginOrOpaque(): window.origin, or the tagged location when opaque
\* Variant: return window.origin
getOriginOrOpaqueBare(win) == <<win.origin>>

getOriginOrOpaque(win) ==
  IF win.origin = "null" THEN <<"[opaque]", win.href>> ELSE <<win.origin>>

\* ------------------------------------------------------------ takeSnapshot
NoSnapshots == [s \in {} |-> <<>>]            \* const storeSnapshots = {}

\* Variant: storeSnapshots[storeNames[0]] = all, every store under one name
SetStoreSnapshotFirstName(storeSnapshots, storeName, all) ==
  [s \in DOMAIN storeSnapshots \cup {StoreOrder[1]} |->
     IF s = StoreOrder[1] THEN all ELSE storeSnapshots[s]]

\* storeSnapshots[storeName] = all
SetStoreSnapshot(storeSnapshots, storeName, all) ==
  [s \in DOMAIN storeSnapshots \cup {storeName} |->
     IF s = storeName THEN all ELSE storeSnapshots[s]]

\* Object.values(storeSnapshots).map(snap => snap.length).reduce(+, 0)
RECURSIVE SumLengths(_, _)
SumLengths(storeSnapshots, names) ==
  IF names = {} THEN 0
  ELSE LET s == CHOOSE n \in names : TRUE
       IN Len(storeSnapshots[s]) + SumLengths(storeSnapshots, names \ {s})

\* Variant: Object.values(storeSnapshots).length, the stores counted
CountRecordsStores(storeSnapshots) == Cardinality(DOMAIN storeSnapshots)

CountRecords(storeSnapshots) == SumLengths(storeSnapshots, DOMAIN storeSnapshots)

\* The message data takeSnapshot sends with "snapshot-data" (id: none yet)
SnapshotPackage(win, dbName, dbVersion, created, storeNames, storeSnapshots) ==
  [id          |-> 0,
   origin      |-> getOriginOrOpaque(win),
   dbName      |-> dbName,
   dbVersion   |-> dbVersion,
   created     |-> created,
   stores      |-> storeNames,
   storeCount  |-> Len(storeNames),
   recordCount |-> CountRecords(storeSnapshots),
   snapshot    |-> storeSnapshots]

\* --------------------------------------------------------- restoreSnapshot
\* Variant: for a store with a key generator the entry is put without its id,
\* so that the generator hands out a new key
RECURSIVE PutEntriesFreshKeys(_, _, _, _)
PutEntriesFreshKeys(kind, storeName, entries, i) ==
  IF i > Len(entries) THEN [queue |-> <<>>, threw |-> ""]
  ELSE LET entry == IF HasGenerator(kind) THEN [entries[i] EXCEPT !.id = 0]
                    ELSE entries[i]
           err == PutCheck(kind, entry, 0)
       IN IF err # "" THEN [queue |-> <<>>, threw |-> err]
          ELSE LET rest == PutEntriesFreshKeys(kind, storeName, entries, i + 1)
               IN [queue |-> <<[op |-> "put", store |-> storeName,
                                value |-> entry]>> \o rest.queue,
                   threw |-> rest.threw]

\* for (entry of snapshot[storeName]) putResults.push(store.put(entry)):
\* the requests queued for one store, up to the first put that throws
RECURSIVE PutEntries(_, _, _, _)
PutEntries(kind, storeName, entries, i) ==
  IF i > Len(entries) THEN [queue |-> <<>>, threw |-> ""]
  ELSE LET err == PutCheck(kind, entries[i], 0)
       IN IF err # "" THEN [queue |-> <<>>, threw |-> err]
          ELSE LET rest == PutEntries(kind, storeName, entries, i + 1)
               IN [queue |-> <<[op |-> "put", store |-> storeName,
                                value |-> entries[i]]>> \o rest.queue,
                   threw |-> rest.threw]

\* Variant: store.clear() is queued ahead of each store's puts
RECURSIVE IssuePutsAfterClear(_, _, _, _)
IssuePutsAfterClear(sch, stores, snapshot, i) ==
  IF i > Len(stores) THEN [queue |-> <<>>, threw |-> ""]
  ELSE LET clear == <<[op |-> "clear", store |-> stores[i], value |-> Absent]>>
           one == PutEntries(sch[stores[i]], stores[i], snapshot[stores[i]], 1)
       IN IF one.threw # "" THEN [one EXCEPT !.queue = clear \o @]
          ELSE LET rest == IssuePutsAfterClear(sch, stores, snapshot, i + 1)
               IN [queue |-> clear \o one.queue \o rest.queue, threw |-> rest.threw]

\* for (storeName of stores) { ... }: every request restoreSnapshot queues on
\* its transaction, in program order, and the exception that ended the loop
RECURSIVE IssuePuts(_, _, _, _)
IssuePuts(sch, stores, snapshot, i) ==
  IF i > Len(stores) THEN [queue |-> <<>>, threw |-> ""]
  ELSE LET one == PutEntries(sch[stores[i]], stores[i], snapshot[stores[i]], 1)
       IN IF one.threw # "" THEN one
          ELSE LET rest == IssuePuts(sch, stores, snapshot, i + 1)
               IN [queue |-> one.queue \o rest.queue, threw |-> rest.threw]

\* The requests of one transaction, run in order on the database (put, and
\* IDBObjectStore.clear(), which empties the store and keeps its generator)
RECURSIVE ExecQueue(_, _, _, _)
ExecQueue(sch, d, queue, i) ==
  IF i > Len(queue) THEN d
  ELSE LET q == queue[i]
           st == IF q.op = "clear" THEN [d[q.store] EXCEPT !.recs = EmptyStore.recs]
                 ELSE PutExec(sch[q.store], d[q.store], q.value, 0)
       IN ExecQueue(sch, [d EXCEPT ![q.store] = st], queue, i + 1)

\* No put of the queue asks the key generator for a key beyond MaxKey
RECURSIVE QueueFits(_, _, _, _)
QueueFits(sch, d, queue, i) ==
  IF i > Len(queue) THEN TRUE
  ELSE LET q == queue[i]
       IN /\ q.op = "put" => PutKey(sch[q.store], d[q.store], q.value, 0) <= MaxKey
          /\ QueueFits(sch, ExecQueue(sch, d, <<q>>, 1), queue, i + 1)

\* ------------------------------------------------------------------- state
VARIABLES
  window,       \* the page: [origin, href]
  schema,       \* the page's layout of its database: store name -> kind
  dbVersion,    \* version of the page database, 0 when it does not exist
  dbStores,     \* its object stores
  db,           \* store name -> [recs, gen]
  now,          \* Date.now()
  pageOps,      \* writes the page has made
  cmds,         \* commands the user has issued
  snapTask,     \* takeSnapshot in flight
  clearTask,    \* clearDb in flight
  deleteTask,   \* deleteDb in flight
  restoreTask,  \* restoreSnapshot in flight; result: what its promise settled with
  bgInbox,      \* messages on their way to the background script
  meta,         \* the "snapshots" store of the extension's database: id -> record
  nextId,       \* its key generator
  processing,   \* browser.storage.local processing flag
  added,        \* history: id -> the record as it was added
  wf,           \* history: how far a snapshot/clear|delete/restore workflow got
  once,         \* history: the package restored last, while nothing else wrote
  rlog,         \* history: the restore that finished in the step just taken
  refreshes,    \* popup: refreshSnapshotDisplay calls under way
  shown,        \* popup: what displaySnapshots put in the snapshot table
  dlog,         \* history: the deleteAllSnapshots calls so far, and what the
                \* last one logged
  upgradeEvent, \* versionUpgrades: event.oldVersion, event.newVersion and the
                \* keys of upgradeFns
  upgradeRun,   \* versionUpgrades: what the call did
  siteDbs,      \* read_dbs: the page's databases, name -> [version, stores],
                \* a store being the number of its records
  globalStoreName, \* the content scripts' implicit global storeName
  listRuns,     \* read_dbs: the executions of the script
  siteRestore,  \* read_dbs: a restoreSnapshot on the same page
  originCtx,    \* getOriginOrOpaque: the windows of two contexts
  originOut,    \* getOriginOrOpaque: what the call returned in each
  reqIn,        \* idbResponse: the request and the onSuccess function
  reqRun,       \* idbResponse: the events fired and the promise
  curIn,        \* cursor helpers: store, cursor target, range and valFn
  curRun,       \* cursor helpers: the call under way and its promise
  metaDb,       \* the extension's database: [version, stores, steps], steps
                \* being the upgrade steps run on it since it was created
  connects,     \* dbConnect: the calls of the popup and the background script
  openQueue,    \* dbConnect: the open requests the browser has not finished
  deleteRuns,   \* deleteDb calls on the databases of a page, name -> [pc,
                \* answer of the popup, delete request issued, start
                \* notification sent]
  injections,   \* install_message_handlers.js: the injections into the window
  hasRun,       \* window.indexedDbUtilsInstallMessageHandlersHasRun
  listeners,    \* onMessage listeners the content script has registered
  deliveries,   \* history: for each command message sent to the window, the
                \* number of listeners that handled it, and whether an
                \* injection had finished by then
  popup,        \* the popup: [open, listening (its storage.onChanged listener
                \* is installed), notice (processing notice shown, main
                \* contents hidden)]
  changes,      \* storage change events the popup has not handled yet
  toggling,     \* toggleProcessingState(false) calls awaiting refreshDisplayDBs
  sets,         \* history: storage.local.set calls on the processing flag
  pageOrigin,   \* snapshot table: the origin of the page the popup is open on
  txQueue,      \* snapshot table: the unfinished transactions on the
                \* snapshots store, in the order they were created
  popupInbox,   \* snapshot table: refresh-snapshot-display messages on their
                \* way to the popup
  awaiting      \* snapshot table: refreshSnapshotDisplay calls awaiting
                \* getPageOrigin

pageVars == <<window, schema, dbVersion, dbStores, db, now, pageOps>>
taskVars == <<snapTask, clearTask, deleteTask, restoreTask>>
bgVars   == <<bgInbox, meta, nextId, processing>>
histVars == <<added, wf, once>>
popupVars == <<refreshes, shown, dlog>>
upgradeVars == <<upgradeEvent, upgradeRun>>
listVars == <<siteDbs, globalStoreName, listRuns, siteRestore>>
originVars == <<originCtx, originOut>>
requestVars == <<reqIn, reqRun>>
cursorVars == <<curIn, curRun>>
utilVars == <<originVars, requestVars, cursorVars>>
connectVars == <<metaDb, connects, openQueue>>
installVars == <<injections, hasRun, listeners, deliveries>>
noticeVars == <<popup, changes, toggling, sets>>
tableVars == <<pageOrigin, txQueue, popupInbox, awaiting>>
extraVars == <<connectVars, deleteRuns, installVars, noticeVars, tableVars>>
libVars  == <<upgradeVars, listVars, utilVars, extraVars>>
auxVars  == <<popupVars, libVars>>
vars     == <<pageVars, cmds, taskVars, bgVars, histVars, rlog, auxVars>>

\* The pages the popup is opened on: window.origin, window.location.href and
\* the layout the page gives its database
HttpWindow   == [origin |-> "https://shop.example", href |-> "https://shop.example/"]
OpaqueWindow == [origin |-> "null", href |-> "file:///shop.html"]
Pages ==
  {[window |-> HttpWindow,   schema |-> [orders |-> "inline",     users |-> "inlineAuto"]],
   [window |-> OpaqueWindow, schema |-> [orders |-> "inline",     users |-> "out"]],
   [window |-> HttpWindow,   schema |-> [orders |-> "inlineAuto", users |-> "outAuto"]],
   [window |-> OpaqueWindow, schema |-> [orders |-> "outAuto",    users |-> "inline"]],
   [window |-> HttpWindow,   schema |-> [orders |-> "out",        users |-> "inline"]]}

\* What the page has stored when the popup is opened: nothing, or one record
\* under key 1 in every store
SeedStore(kind) ==
  PutExec(kind, EmptyStore, [id |-> IF HasKeyPath(kind) THEN 1 ELSE 0, data |-> "x"],
          IF HasKeyPath(kind) THEN 0 ELSE 1)
InitialDbs(sch) == {EmptyDb, [s \in StoreNames |-> SeedStore(sch[s])]}

UndefinedPkg ==
  [id |-> 0, origin |-> <<>>, dbName |-> "", dbVersion |-> 0, created |-> 0,
   stores |-> <<>>, storeCount |-> 0, recordCount |-> 0, snapshot |-> NoSnapshots]

\* A JavaScript value a promise settles with, as far as the model tells them apart
JsPending        == [t |-> "pending", len |-> 0, name |-> ""]
JsArray(n)       == [t |-> "array", len |-> n, name |-> ""]
JsRejected(name) == [t |-> "rejected", len |-> 0, name |-> name]
JsUndefined      == [t |-> "undefined", len |-> 0, name |-> ""]
JsNumber(n)      == [t |-> "number", len |-> n, name |-> ""]

SnapIdle    == [pc |-> "idle", dbVersion |-> 0, storeNames |-> <<>>, i |-> 0,
                storeSnapshots |-> NoSnapshots]
\* before, alone: history, the database when the command arrived and whether
\* nothing else has written to it since
NoBefore    == [dbVersion |-> 0, dbStores |-> {}, schema |-> <<>>, db |-> EmptyDb]
ClearIdle   == [pc |-> "idle", storeNames |-> <<>>, i |-> 0, deleted |-> 0,
                result |-> JsPending, before |-> NoBefore, alone |-> TRUE]
RestoreIdle == [pc |-> "idle", pkg |-> UndefinedPkg, queue |-> <<>>, threw |-> "",
                result |-> JsPending]
WfNone      == [stage |-> "none", pkg |-> UndefinedPkg]
OnceNone    == [valid |-> FALSE, pkg |-> UndefinedPkg]
RlogNone    == [valid |-> FALSE, pkg |-> UndefinedPkg, before |-> EmptyDb,
                after |-> EmptyDb, outcome |-> "", threw |-> "", second |-> FALSE,
                result |-> JsPending]

Msg(command, data, snapshotKey) ==
  [command |-> command, data |-> data, snapshotKey |-> snapshotKey]

\* The popup before it has displayed anything
ShownNone == [origin |-> <<>>, rows |-> <<>>]
DlogNone  == [n |-> 0, origin |-> <<>>, count_deleted |-> 0]

PopupInit ==
  /\ refreshes = <<>>
  /\ shown = ShownNone
  /\ dlog = DlogNone

\* No upgradeneeded event is being handled
NoEvent == [oldVersion |-> 0, newVersion |-> 0, keys |-> {}]
NotRun  == [done |-> FALSE, threw |-> "", called |-> <<>>]

UpgradeIdle ==
  /\ upgradeEvent = NoEvent
  /\ upgradeRun = NotRun

\* One execution of read_dbs.js; counted: history, the store each count
\* request was made on
ListIdle == [pc |-> "idle", dbs |-> <<>>, d |-> 0, storeNames |-> <<>>, i |-> 0,
             summaries |-> <<>>, counted |-> <<>>]
SiteRestoreIdle == [pc |-> "idle", dbName |-> "", puts |-> <<>>]
Runs == 1..MaxRuns

ListingIdle ==
  /\ siteDbs = [n \in {} |-> 0]
  /\ globalStoreName = "undefined"
  /\ listRuns = [r \in Runs |-> ListIdle]
  /\ siteRestore = SiteRestoreIdle

\* A promise: pending, or settled with one value
PromisePending     == [state |-> "pending", value |-> <<>>]
PromiseResolved(v) == [state |-> "resolved", value |-> <<v>>]
PromiseRejected(v) == [state |-> "rejected", value |-> <<v>>]

\* Nothing of the utility module is running
NoRequest    == [result |-> 0, error |-> "", onSuccess |-> ""]
NotWrapped   == [pc |-> "idle", event |-> "", promise |-> PromisePending,
                 settled |-> 0]
AllRange     == [kind |-> "all", lower |-> 0, upper |-> 0]
NoCursor     == [store |-> [i \in {} |-> UndefinedPkg], target |-> "",
                 range |-> AllRange, valFn |-> ""]
CursorNotRun == [pc |-> "idle", fn |-> "", promise |-> PromisePending,
                 acc |-> 0, opFn |-> "", before |-> [i \in {} |-> UndefinedPkg]]

\* DBNAME and DBVERSION of core.js, the scripts that call dbConnect and their
\* calls
DBNAME    == "indexed-db-utils"
DBVERSION == 1
Scripts   == {"popup", "background"}
Callers   == Scripts \X (1..MaxConnects)
NoDatabase == [version |-> 0, stores |-> {}, steps |-> <<>>]
ConnectIdle ==
  /\ metaDb = NoDatabase
  /\ connects = [c \in Callers |-> "idle"]
  /\ openQueue = <<>>
DeleteIdle == [pc |-> "idle", answer |-> "", request |-> FALSE, start |-> FALSE]
DeletesIdle == deleteRuns = [d \in {"blog", "shop"} |-> DeleteIdle]
InstallIdle ==
  /\ injections = [n \in 1..MaxInjects |-> "idle"]
  /\ hasRun = FALSE
  /\ listeners = 0
  /\ deliveries = <<>>
PopupClosed == [open |-> FALSE, listening |-> FALSE, notice |-> FALSE]
NoticeIdle ==
  /\ popup = PopupClosed
  /\ changes = <<>>
  /\ toggling = 0
  /\ sets = 0
TableIdle ==
  /\ pageOrigin = <<>>
  /\ txQueue = <<>>
  /\ popupInbox = <<>>
  /\ awaiting = <<>>
ExtraIdle == ConnectIdle /\ DeletesIdle /\ InstallIdle /\ NoticeIdle /\ TableIdle

OriginIdle  == originCtx = <<>> /\ originOut = <<>>
RequestIdle == reqIn = NoRequest /\ reqRun = NotWrapped
CursorIdle  == curIn = NoCursor /\ curRun = CursorNotRun

AuxInit ==
  /\ PopupInit
  /\ UpgradeIdle
  /\ ListingIdle
  /\ OriginIdle
  /\ RequestIdle
  /\ CursorIdle
  /\ ExtraIdle

Init ==
  /\ \E page \in Pages : window = page.window /\ schema = page.schema
  /\ AuxInit
  /\ dbVersion = 1
  /\ dbStores = StoreNames
  /\ db \in InitialDbs(schema)
  /\ now = 0
  /\ pageOps = 0
  /\ cmds = 0
  /\ snapTask = SnapIdle
  /\ clearTask = ClearIdle
  /\ deleteTask = "idle"
  /\ restoreTask = RestoreIdle
  /\ bgInbox = <<>>
  /\ meta = [i \in {} |-> UndefinedPkg]
  /\ nextId = 1
  /\ processing = FALSE
  /\ added = [i \in {} |-> UndefinedPkg]
  /\ wf = WfNone
  /\ once = OnceNone
  /\ rlog = RlogNone

\* Another writer changes the database while clearDb is under way
Disturbed(task) == IF task.pc = "idle" THEN task ELSE [task EXCEPT !.alone = FALSE]

\* A content-script call holds an open connection to the page database
Connected ==
  snapTask.pc = "read" \/ clearTask.pc = "walk" \/ restoreTask.pc = "tx"

\* Variant: open(dbName, version + 1), an upgrade forced by the open
OpenedVersionUpgrade == dbVersion + 1

\* window.indexedDB.open(dbName) with no version: the database as it is, or a
\* new one at version 1 with no object store
OpenedVersion == IF dbVersion = 0 THEN 1 ELSE dbVersion

\* ---------------------------------------------------------------- the page
\* The page writes one record: put(value) on a store with a keyPath,
\* put(value, k) or put(value) on one without (k = 0: no key given)
PagePut(s, k, d) ==
  /\ UNCHANGED auxVars
  /\ pageOps < MaxPageOps
  /\ s \in dbStores
  /\ LET kind  == schema[s]
         value == [id |-> IF HasKeyPath(kind) THEN k ELSE 0, data |-> d]
         key   == IF HasKeyPath(kind) THEN 0 ELSE k
     IN /\ PutCheck(kind, value, key) = ""
        /\ PutKey(kind, db[s], value, key) <= MaxKey
        /\ db' = [db EXCEPT ![s] = PutExec(kind, db[s], value, key)]
  /\ pageOps' = pageOps + 1
  /\ wf' = WfNone
  /\ once' = OnceNone
  /\ rlog' = RlogNone
  /\ clearTask' = Disturbed(clearTask)
  /\ UNCHANGED <<window, schema, dbVersion, dbStores, now, cmds, snapTask,
                 deleteTask, restoreTask, bgVars, added>>

PageDelete(s, k) ==
  /\ UNCHANGED auxVars
  /\ pageOps < MaxPageOps
  /\ s \in dbStores
  /\ db[s].recs[k] # Absent
  /\ db' = [db EXCEPT ![s].recs[k] = Absent]
  /\ pageOps' = pageOps + 1
  /\ wf' = WfNone
  /\ once' = OnceNone
  /\ rlog' = RlogNone
  /\ clearTask' = Disturbed(clearTask)
  /\ UNCHANGED <<window, schema, dbVersion, dbStores, now, cmds, snapTask,
                 deleteTask, restoreTask, bgVars, added>>

\* The page (re)creates its database: open(name, 1) and its upgrade handler
PageCreate ==
  /\ UNCHANGED auxVars
  /\ dbVersion = 0
  /\ deleteTask # "deleting"
  /\ dbVersion' = 1
  /\ dbStores' = StoreNames
  /\ db' = EmptyDb
  /\ wf' = IF wf.stage = "deleted" THEN [wf EXCEPT !.stage = "recreated"] ELSE wf
  /\ rlog' = RlogNone
  /\ UNCHANGED <<window, schema, now, pageOps, cmds, taskVars, bgVars, added,
                 once>>

\* The page finds its database without its stores and upgrades it
PageUpgrade ==
  /\ UNCHANGED auxVars
  /\ dbVersion > 0
  /\ dbStores = {}
  /\ ~Connected
  /\ deleteTask # "deleting"
  /\ dbVersion' = dbVersion + 1
  /\ dbStores' = StoreNames
  /\ rlog' = RlogNone
  /\ clearTask' = Disturbed(clearTask)
  /\ UNCHANGED <<window, schema, db, now, pageOps, cmds, snapTask, deleteTask,
                 restoreTask, bgVars, histVars>>

\* Content-script calls under way
InFlight ==
  Cardinality({t \in {"snap", "clear", "delete", "restore"} :
     \/ t = "snap" /\ snapTask.pc # "idle"
     \/ t = "clear" /\ clearTask.pc # "idle"
     \/ t = "delete" /\ deleteTask # "idle"
     \/ t = "restore" /\ restoreTask.pc # "idle"})

\* No other content-script call is under way
Quiet(snap, clear, del, restore) ==
  /\ snap.pc = "idle" /\ clear.pc = "idle" /\ del = "idle" /\ restore.pc = "idle"

\* ------------------------------------------------------------ takeSnapshot
\* The version the popup's table shows for the database
ListedVersions == IF dbVersion = 0 THEN {1} ELSE {dbVersion}

\* "snapshot" button: takeSnapshot(msg) up to its await of indexedDB.open
SnapshotCmd(v) ==
  /\ UNCHANGED auxVars
  /\ cmds < MaxCmds
  /\ InFlight < MaxInFlight
  /\ snapTask.pc = "idle"
  /\ (nextId - 1) + Len(SelectSeq(bgInbox, LAMBDA m : m.command = "snapshot-data"))
       < MaxSnapshots
  /\ snapTask' = [SnapIdle EXCEPT !.pc = "open", !.dbVersion = v]
  /\ cmds' = cmds + 1
  /\ rlog' = RlogNone
  /\ UNCHANGED <<pageVars, clearTask, deleteTask, restoreTask,
                 bgVars, histVars>>

\* browser.runtime.sendMessage({command: "snapshot-data", ...}) and return
SnapSend(storeNames, storeSnapshots) ==
  \E t \in {now, now + 1} \cap (0..MaxClock) :
    LET data == SnapshotPackage(window, DBNAME_PAGE, snapTask.dbVersion, t,
                                storeNames, storeSnapshots)
    IN /\ now' = t
       /\ bgInbox' = Append(bgInbox, Msg("snapshot-data", data, 0))
       /\ wf' = [stage |-> "captured", pkg |-> data]
       /\ snapTask' = SnapIdle

\* open resolved: storeNames, and the first store's getAll is issued
SnapOpened ==
  /\ UNCHANGED auxVars
  /\ snapTask.pc = "open"
  /\ deleteTask # "deleting"
  /\ dbVersion' = OpenedVersion
  /\ LET storeNames == SortedNames(dbStores)
     IN IF storeNames = <<>>
        THEN SnapSend(storeNames, NoSnapshots)
        ELSE /\ snapTask' = [snapTask EXCEPT !.pc = "read", !.i = 1,
                                             !.storeNames = storeNames]
             /\ UNCHANGED <<now, bgInbox, wf>>
  /\ rlog' = RlogNone
  /\ UNCHANGED <<window, schema, dbStores, db, pageOps, cmds, clearTask,
                 deleteTask, restoreTask, meta, nextId,
                 processing, added, once>>

\* one store's getAll resolved, in its own readonly transaction
SnapRead ==
  /\ UNCHANGED auxVars
  /\ snapTask.pc = "read"
  /\ LET storeName == snapTask.storeNames[snapTask.i]
         all == getAll(db[storeName].recs)
         storeSnapshots == SetStoreSnapshot(snapTask.storeSnapshots, storeName, all)
     IN IF snapTask.i < Len(snapTask.storeNames)
        THEN /\ snapTask' = [snapTask EXCEPT !.i = @ + 1,
                                             !.storeSnapshots = storeSnapshots]
             /\ UNCHANGED <<now, bgInbox, wf>>
        ELSE SnapSend(snapTask.storeNames, storeSnapshots)
  /\ rlog' = RlogNone
  /\ UNCHANGED <<window, schema, dbVersion, dbStores, db, pageOps, cmds,
                 clearTask, deleteTask, restoreTask, meta, nextId,
                 processing, added, once>>

\* ----------------------------------------------------------------- clearDb
\* "clear" button: clearDb(msg) up to its await of indexedDB.open
ClearCmd ==
  /\ UNCHANGED auxVars
  /\ cmds < MaxCmds
  /\ InFlight < MaxInFlight
  /\ clearTask.pc = "idle"
  /\ clearTask' = [ClearIdle EXCEPT !.pc = "open",
                                      !.before = [dbVersion |-> dbVersion,
                                                  dbStores |-> dbStores,
                                                  schema |-> schema, db |-> db]]
  /\ cmds' = cmds + 1
  /\ wf' = IF wf.stage = "captured" /\ Quiet(snapTask, clearTask, deleteTask, restoreTask)
           THEN [wf EXCEPT !.stage = "clearing"] ELSE WfNone
  /\ rlog' = RlogNone
  /\ UNCHANGED <<pageVars, snapTask, deleteTask, restoreTask,
                 bgVars, added, once>>

\* the loop is over: "refresh-db-display" goes to the popup, the count is
\* logged, and the async function returns no value
ClearDone(deleted) ==
  /\ clearTask' = [ClearIdle EXCEPT !.deleted = deleted, !.result = JsUndefined]
  /\ wf' = IF wf.stage = "clearing" THEN [wf EXCEPT !.stage = "cleared"] ELSE wf

ClearOpened ==
  /\ UNCHANGED auxVars
  /\ clearTask.pc = "open"
  /\ deleteTask # "deleting"
  /\ dbVersion' = OpenedVersion
  /\ LET storeNames == SortedNames(dbStores)
     IN IF storeNames = <<>>
        THEN ClearDone(0)
        ELSE /\ clearTask' = [clearTask EXCEPT !.pc = "walk", !.i = 1,
                                               !.storeNames = storeNames]
             /\ wf' = wf
  /\ rlog' = RlogNone
  /\ UNCHANGED <<window, schema, dbStores, db, now, pageOps, cmds, snapTask,
                 deleteTask, restoreTask, bgVars, added, once>>

\* deleted += await idbCursorEach(store, undefined, 0, delete-and-count), in
\* the store's own readwrite transaction
ClearStore ==
  /\ UNCHANGED auxVars
  /\ clearTask.pc = "walk"
  /\ LET storeName == clearTask.storeNames[clearTask.i]
         walk == idbCursorEach(db[storeName].recs, 0, "delete")
         deleted == AddDeleted(clearTask.deleted, walk.acc)
     IN /\ db' = [db EXCEPT ![storeName].recs = walk.recs]
        /\ IF clearTask.i < Len(clearTask.storeNames)
           THEN /\ clearTask' = [clearTask EXCEPT !.i = @ + 1, !.deleted = deleted]
                /\ wf' = wf
           ELSE ClearDone(deleted)
  /\ once' = OnceNone
  /\ rlog' = RlogNone
  /\ UNCHANGED <<window, schema, dbVersion, dbStores, now, pageOps, cmds,
                 snapTask, deleteTask, restoreTask, bgVars, added>>

\* ---------------------------------------------------------------- deleteDb
\* "delete" button: deleteDb(msg) sends "popup-confirm" and returns
DeleteCmd ==
  /\ UNCHANGED auxVars
  /\ cmds < MaxCmds
  /\ InFlight < MaxInFlight
  /\ deleteTask = "idle"
  /\ deleteTask' = "confirm"
  /\ cmds' = cmds + 1
  /\ rlog' = RlogNone
  /\ UNCHANGED <<pageVars, snapTask, clearTask, restoreTask,
                 bgVars, histVars>>

\* the popup's answer: on yes, "start-processing-notif" is sent and
\* indexedDB.deleteDatabase(dbName) is issued
DeleteAnswer(continueDelete) ==
  /\ UNCHANGED auxVars
  /\ deleteTask = "confirm"
  /\ IF continueDelete
     THEN /\ bgInbox' = Append(bgInbox, Msg("start-processing-notif", UndefinedPkg, 0))
          /\ deleteTask' = "deleting"
          /\ wf' = IF /\ wf.stage = "captured"
                      /\ Quiet(snapTask, clearTask, "idle", restoreTask)
                   THEN [wf EXCEPT !.stage = "deleting"] ELSE WfNone
     ELSE /\ deleteTask' = "idle"
          /\ UNCHANGED <<bgInbox, wf>>
  /\ rlog' = RlogNone
  /\ UNCHANGED <<pageVars, cmds, snapTask, clearTask, restoreTask,
                 meta, nextId, processing, added, once>>

\* the delete request succeeds, once no connection to the database is open:
\* "end-processing-notif" is sent
DeleteResolve ==
  /\ UNCHANGED auxVars
  /\ deleteTask = "deleting"
  /\ ~Connected
  /\ dbVersion' = 0
  /\ dbStores' = {}
  /\ db' = EmptyDb
  /\ bgInbox' = Append(bgInbox, Msg("end-processing-notif", UndefinedPkg, 0))
  /\ deleteTask' = "idle"
  /\ wf' = IF wf.stage = "deleting" THEN [wf EXCEPT !.stage = "deleted"] ELSE WfNone
  /\ once' = OnceNone
  /\ rlog' = RlogNone
  /\ clearTask' = Disturbed(clearTask)
  /\ UNCHANGED <<window, schema, now, pageOps, cmds, snapTask,
                 restoreTask, meta, nextId, processing, added>>

\* the delete request fails: .catch logs the error
DeleteFail ==
  /\ UNCHANGED auxVars
  /\ deleteTask = "deleting"
  /\ deleteTask' = "idle"
  /\ wf' = WfNone
  /\ rlog' = RlogNone
  /\ UNCHANGED <<pageVars, cmds, snapTask, clearTask, restoreTask,
                 bgVars, added, once>>

\* --------------------------------------------------------- restoreSnapshot
\* Variant: the promise is fulfilled with an array of stores.length entries
restoreSnapshotPerStore(sch, stores, pkg) ==
  IF pkg.stores = <<>>
  THEN [tx |-> FALSE, queue |-> <<>>, threw |-> "InvalidAccessError",
        result |-> JsRejected("InvalidAccessError")]
  ELSE IF ~(Range(pkg.stores) \subseteq stores)
  THEN [tx |-> FALSE, queue |-> <<>>, threw |-> "NotFoundError",
        result |-> JsRejected("NotFoundError")]
  ELSE LET issue == IssuePuts(sch, pkg.stores, pkg.snapshot, 1)
       IN [tx |-> TRUE, queue |-> issue.queue, threw |-> issue.threw,
           result |-> IF issue.threw # "" THEN JsRejected(issue.threw)
                      ELSE JsArray(Len(pkg.stores))]

\* restoreSnapshot after its open resolved: dbCon.transaction(stores,
\* "readwrite") throws for an empty list or a missing store; then the put loop;
\* then Promise.all(putResults), whose members are the IDBRequest objects
\* themselves, so that the promise is fulfilled with that array at once.
restoreSnapshot(sch, stores, pkg) ==
  IF pkg.stores = <<>>
  THEN [tx |-> FALSE, queue |-> <<>>, threw |-> "InvalidAccessError",
        result |-> JsRejected("InvalidAccessError")]
  ELSE IF ~(Range(pkg.stores) \subseteq stores)
  THEN [tx |-> FALSE, queue |-> <<>>, threw |-> "NotFoundError",
        result |-> JsRejected("NotFoundError")]
  ELSE LET issue == IssuePuts(sch, pkg.stores, pkg.snapshot, 1)
       IN [tx |-> TRUE, queue |-> issue.queue, threw |-> issue.threw,
           result |-> IF issue.threw # "" THEN JsRejected(issue.threw)
                      ELSE JsArray(Len(issue.queue))]

RestoreOpened ==
  /\ UNCHANGED auxVars
  /\ restoreTask.pc = "open"
  /\ deleteTask # "deleting"
  /\ dbVersion' = OpenedVersion
  /\ LET r == restoreSnapshot(schema, dbStores, restoreTask.pkg)
     IN IF r.tx
        THEN /\ restoreTask' = [restoreTask EXCEPT !.pc = "tx", !.queue = r.queue,
                                                   !.threw = r.threw,
                                                   !.result = r.result]
             /\ wf' = wf
             /\ rlog' = RlogNone
        ELSE /\ restoreTask' = RestoreIdle
             /\ wf' = WfNone
             /\ rlog' = [valid |-> TRUE, pkg |-> restoreTask.pkg, before |-> db,
                         after |-> db, outcome |-> "none", threw |-> r.threw,
                         second |-> FALSE, result |-> r.result]
  /\ UNCHANGED <<window, schema, dbStores, db, now, pageOps, cmds, snapTask,
                 clearTask, deleteTask, bgVars, added, once>>

\* The transaction runs its queued puts and commits (failed = 0), or put
\* number `failed` fails, nobody handles the error, and it aborts.
RestoreTx(failed) ==
  /\ UNCHANGED auxVars
  /\ restoreTask.pc = "tx"
  /\ failed \in 0..Len(restoreTask.queue)
  /\ failed = 0 => QueueFits(schema, db, restoreTask.queue, 1)
  /\ db' = IF failed = 0 THEN ExecQueue(schema, db, restoreTask.queue, 1) ELSE db
  /\ rlog' = [valid |-> TRUE, pkg |-> restoreTask.pkg, before |-> db, after |-> db',
              outcome |-> IF failed = 0 THEN "commit" ELSE "abort",
              threw |-> restoreTask.threw,
              second |-> once.valid /\ once.pkg = restoreTask.pkg,
              result |-> restoreTask.result]
  /\ once' = IF failed # 0 THEN once
             ELSE IF restoreTask.threw = ""
                  THEN [valid |-> TRUE, pkg |-> restoreTask.pkg]
                  ELSE OnceNone
  /\ wf' = IF failed = 0 /\ wf.stage \in {"restoringC", "restoringD"}
           THEN [wf EXCEPT !.stage = IF @ = "restoringC" THEN "restoredC"
                                     ELSE "restoredD"]
           ELSE WfNone
  /\ restoreTask' = RestoreIdle
  /\ clearTask' = Disturbed(clearTask)
  /\ UNCHANGED <<window, schema, dbVersion, dbStores, now, pageOps, cmds,
                 snapTask, deleteTask, bgVars, added>>

\* ------------------------------------------------------- background script
\* snapshot buttons of the popup's snapshot table (ids it has ever listed)
KickoffCmd(id) ==
  /\ UNCHANGED auxVars
  /\ cmds < MaxCmds
  /\ id \in 1..(nextId - 1)
  /\ bgInbox' = Append(bgInbox, Msg("kickoff-snapshot-restore", UndefinedPkg, id))
  /\ cmds' = cmds + 1
  /\ rlog' = RlogNone
  /\ UNCHANGED <<pageVars, taskVars, meta, nextId, processing, histVars>>

SnapshotDeleteCmd(id) ==
  /\ UNCHANGED auxVars
  /\ cmds < MaxCmds
  /\ id \in 1..(nextId - 1)
  /\ bgInbox' = Append(bgInbox, Msg("snapshot-delete", UndefinedPkg, id))
  /\ cmds' = cmds + 1
  /\ rlog' = RlogNone
  /\ UNCHANGED <<pageVars, taskVars, meta, nextId, processing, histVars>>

\* Variant: store.put({...msg.data, id: 1}), every snapshot under the same id
snapshotDataPutFirst(store, generator, data) ==
  [meta   |-> [i \in DOMAIN store \cup {1} |->
                 IF i = 1 THEN [data EXCEPT !.id = 1] ELSE store[i]],
   nextId |-> generator + 1]

\* Variant: the record gets the lowest id no stored record has
snapshotDataLowestFree(store, generator, data) ==
  LET free == CHOOSE i \in 1..generator :
                i \notin DOMAIN store /\ \A j \in 1..(i - 1) : j \in DOMAIN store
  IN [meta   |-> [i \in DOMAIN store \cup {free} |->
                    IF i = free THEN [data EXCEPT !.id = free] ELSE store[i]],
      nextId |-> generator + 1]

\* snapshotData: store.add(msg.data) on the autoincrementing "snapshots" store
\* Variant: store.add(msg.data) is called twice
snapshotDataTwice(store, generator, data) ==
  [meta   |-> [i \in DOMAIN store \cup {generator, generator + 1} |->
                 IF i \in {generator, generator + 1} THEN [data EXCEPT !.id = i]
                 ELSE store[i]],
   nextId |-> generator + 2]

snapshotData(store, generator, data) ==
  [meta   |-> [i \in DOMAIN store \cup {generator} |->
                 IF i = generator THEN [data EXCEPT !.id = generator] ELSE store[i]],
   nextId |-> generator + 1]

BgSnapshotData ==
  /\ UNCHANGED auxVars
  /\ bgInbox # <<>>
  /\ Head(bgInbox).command = "snapshot-data"
  /\ LET r == snapshotData(meta, nextId, Head(bgInbox).data)
     IN /\ meta' = r.meta
        /\ nextId' = r.nextId
        /\ added' = [i \in DOMAIN added \cup (DOMAIN r.meta \ DOMAIN meta) |->
                       IF i \in DOMAIN added THEN added[i] ELSE r.meta[i]]
  /\ bgInbox' = Tail(bgInbox)
  /\ rlog' = RlogNone
  /\ UNCHANGED <<pageVars, cmds, taskVars, processing, wf, once>>

\* startProcessing / endProcessing: browser.storage.local.set({processing})
\* Variant: endProcessing leaves the flag as it is
endProcessingKeep(flag) == flag

\* startProcessing: storage.local.set({processing: true}); endProcessing:
\* storage.local.set({processing: false})
startProcessing(flag) == TRUE
endProcessing(flag) == FALSE

BgProcessing ==
  /\ UNCHANGED auxVars
  /\ bgInbox # <<>>
  /\ Head(bgInbox).command \in {"start-processing-notif", "end-processing-notif"}
  /\ processing' = IF Head(bgInbox).command = "start-processing-notif"
                   THEN startProcessing(processing) ELSE endProcessing(processing)
  /\ bgInbox' = Tail(bgInbox)
  /\ rlog' = RlogNone
  /\ UNCHANGED <<pageVars, cmds, taskVars, meta, nextId, histVars>>

\* snapshotDelete: store.delete(msg.snapshotKey)
snapshotDelete(store, snapshotKey) ==
  [i \in DOMAIN store \ {snapshotKey} |-> store[i]]

BgSnapshotDelete ==
  /\ UNCHANGED auxVars
  /\ bgInbox # <<>>
  /\ Head(bgInbox).command = "snapshot-delete"
  /\ meta' = snapshotDelete(meta, Head(bgInbox).snapshotKey)
  /\ bgInbox' = Tail(bgInbox)
  /\ rlog' = RlogNone
  /\ UNCHANGED <<pageVars, cmds, taskVars, nextId, processing, histVars>>

\* Variant: an empty package stands in for a record that is not there
kickoffSnapshotRestoreDefault(store, keyId) ==
  IF keyId \in DOMAIN store THEN store[keyId] ELSE [UndefinedPkg EXCEPT !.id = keyId]

\* kickoffSnapshotRestore: store.get(keyId), undefined when there is no record
kickoffSnapshotRestore(store, keyId) ==
  IF keyId \in DOMAIN store THEN store[keyId] ELSE UndefinedPkg

\* The package goes to the content script as "restore-snapshot";
\* restoreSnapshot(msg) destructures msg.snapshot and awaits indexedDB.open
BgKickoff ==
  /\ UNCHANGED auxVars
  /\ bgInbox # <<>>
  /\ Head(bgInbox).command = "kickoff-snapshot-restore"
  /\ InFlight < MaxInFlight
  /\ restoreTask.pc = "idle"
  /\ LET snapshot == kickoffSnapshotRestore(meta, Head(bgInbox).snapshotKey)
     IN IF snapshot = UndefinedPkg
        THEN /\ rlog' = [RlogNone EXCEPT !.valid = TRUE, !.outcome = "none",
                                          !.threw = "TypeError",
                                          !.result = JsRejected("TypeError")]
             /\ UNCHANGED <<restoreTask, wf>>
        ELSE /\ rlog' = RlogNone
             /\ restoreTask' = [RestoreIdle EXCEPT !.pc = "open", !.pkg = snapshot]
             /\ wf' = IF /\ wf.stage \in {"cleared", "recreated"}
                         /\ [snapshot EXCEPT !.id = 0] = wf.pkg
                         /\ Quiet(snapTask, clearTask, deleteTask, restoreTask)
                      THEN [wf EXCEPT !.stage = IF @ = "cleared" THEN "restoringC"
                                                ELSE "restoringD"]
                      ELSE WfNone
  /\ bgInbox' = Tail(bgInbox)
  /\ UNCHANGED <<pageVars, cmds, snapTask, clearTask, deleteTask, meta, nextId,
                 processing, added, once>>

\* --------------------------------------------------------- versionUpgrades
\* String(n), as its decimal digits
RECURSIVE Digits(_)
Digits(n) == IF n < 10 THEN <<n>> ELSE Digits(n \div 10) \o <<n % 10>>

\* The order Array.prototype.sort() puts two numbers in when it is given no
\* comparator: by their string forms, code unit by code unit
RECURSIVE StringLess(_, _)
StringLess(a, b) ==
  IF a = <<>> THEN b # <<>>
  ELSE IF b = <<>> THEN FALSE
  ELSE IF Head(a) # Head(b) THEN Head(a) < Head(b)
  ELSE StringLess(Tail(a), Tail(b))

\* Object.keys(upgradeFns).map(Number).sort()
RECURSIVE DefaultSort(_)
DefaultSort(S) ==
  IF S = {} THEN <<>>
  ELSE LET first == CHOOSE v \in S :
                      \A w \in S \ {v} : StringLess(Digits(v), Digits(w))
       IN <<first>> \o DefaultSort(S \ {first})

\* versions.indexOf(current), counted from 1
IndexOf(versions, v) == CHOOSE i \in 1..Len(versions) : versions[i] = v

\* Variant: only the current version is looked up before the loop
versionUpgradesUnchecked(current, requested, keys) ==
  LET versions == DefaultSort(keys)
  IN IF current \notin Range(versions)
     THEN [done |-> TRUE, threw |-> "upgradeFns missing current version", called |-> <<>>]
     ELSE [done |-> TRUE, threw |-> "",
           called |-> SubSeq(versions, IndexOf(versions, current) + 1, Len(versions))]

\* versionUpgrades(event, upgradeFns): the error it throws and the upgrade
\* functions it has called, in call order
versionUpgrades(current, requested, keys) ==
  LET versions == DefaultSort(keys)
  IN IF current \notin Range(versions)
     THEN [done |-> TRUE, threw |-> "upgradeFns missing current version", called |-> <<>>]
     ELSE IF requested \notin Range(versions)
     THEN [done |-> TRUE, threw |-> "upgradeFns missing requested version",
           called |-> <<>>]
     ELSE [done |-> TRUE, threw |-> "",
           called |-> SubSeq(versions, IndexOf(versions, current) + 1, Len(versions))]

\* The upgradeneeded events: a database at oldVersion is opened at a higher
\* newVersion, with upgrade functions for some versions
UpgradeEvents ==
  {ev \in [oldVersion : 0..MaxVersion, newVersion : 1..MaxVersion,
           keys : SUBSET (0..MaxVersion)] : ev.oldVersion < ev.newVersion}

\* onupgradeneeded: versionUpgrades(event, upgradeFns)
UpgradeNeeded ==
  /\ ~upgradeRun.done
  /\ upgradeEvent # NoEvent
  /\ upgradeRun' = versionUpgrades(upgradeEvent.oldVersion, upgradeEvent.newVersion,
                                   upgradeEvent.keys)
  /\ UNCHANGED <<pageVars, cmds, taskVars, bgVars, histVars, rlog, popupVars,
                 upgradeEvent, listVars, utilVars, extraVars>>

\* ----------------------------------------------------------------- read_dbs
\* The databases of the listed page; their stores have out-of-line keys and a
\* key generator, so that a put without a key adds a record
DbOrder == <<"blog", "shop">>
DbNames == Range(DbOrder)
StoreIndexes(name) == IF name = "orders" THEN "by_date" ELSE ""

\* window.indexedDB.databases(): name and version of every database
databases(site) ==
  LET names == SelectSeq(DbOrder, LAMBDA n : n \in DOMAIN site)
  IN [j \in 1..Len(names) |-> [name |-> names[j], version |-> site[names[j]].version]]

\* Variant: summaries = [row]
PushOnly(summaries, row) == <<row>>

\* summaries.push(row)
Push(summaries, row) == Append(summaries, row)

\* The run goes on after the stores of database d: the next database is
\* opened, or the summaries are returned
ListNextDb(task) ==
  IF task.d < Len(task.dbs)
  THEN [task EXCEPT !.pc = "open", !.d = @ + 1, !.storeNames = <<>>, !.i = 0]
  ELSE [task EXCEPT !.pc = "done", !.d = 0, !.storeNames = <<>>, !.i = 0]

\* tabs.executeScript({file: "/content_scripts/read_dbs.js"}): the script
\* runs up to its await of indexedDB.databases()
ListStart(r) ==
  /\ listRuns[r].pc = "idle"
  /\ listRuns' = [listRuns EXCEPT ![r].pc = "databases"]
  /\ UNCHANGED <<pageVars, cmds, taskVars, bgVars, histVars, rlog, popupVars,
                 upgradeVars, utilVars, extraVars, siteDbs, globalStoreName, siteRestore>>

\* databases() resolved: the first open is awaited, or summaries returned
ListDatabases(r) ==
  /\ listRuns[r].pc = "databases"
  /\ listRuns' = [listRuns EXCEPT
                    ![r] = ListNextDb([@ EXCEPT !.dbs = databases(siteDbs)])]
  /\ UNCHANGED <<pageVars, cmds, taskVars, bgVars, histVars, rlog, popupVars,
                 upgradeVars, utilVars, extraVars, siteDbs, globalStoreName, siteRestore>>

\* for (storeName of storeNames): the loop variable is the global storeName;
\* the transaction and the count request are made on it at once
ListIterate(r, task) ==
  IF task.i < Len(task.storeNames)
  THEN /\ globalStoreName' = task.storeNames[task.i + 1]
       /\ listRuns' = [listRuns EXCEPT
                         ![r] = [task EXCEPT !.pc = "count", !.i = @ + 1,
                                   !.counted = Append(@, task.storeNames[task.i + 1])]]
  ELSE /\ globalStoreName' = globalStoreName
       /\ listRuns' = [listRuns EXCEPT ![r] = ListNextDb(task)]

\* open(dbName) resolved: storeNames, and the first iteration of the loop
ListOpened(r) ==
  /\ listRuns[r].pc = "open"
  /\ LET task == listRuns[r]
         dbName == task.dbs[task.d].name
         storeNames == SelectSeq(StoreOrder, LAMBDA n : n \in DOMAIN siteDbs[dbName].stores)
     IN ListIterate(r, [task EXCEPT !.storeNames = storeNames, !.i = 0])
  /\ UNCHANGED <<pageVars, cmds, taskVars, bgVars, histVars, rlog, popupVars,
                 upgradeVars, utilVars, extraVars, siteDbs, siteRestore>>

\* store.count() resolved: the row is pushed, with the store name read from
\* the global, and the loop goes on
ListCounted(r) ==
  /\ listRuns[r].pc = "count"
  /\ LET task == listRuns[r]
         dbName == task.dbs[task.d].name
         dbVersion_ == task.dbs[task.d].version
         store == task.storeNames[task.i]
         row == [name |-> dbName, version |-> dbVersion_, store |-> globalStoreName,
                 indexes |-> StoreIndexes(store),
                 count |-> siteDbs[dbName].stores[store]]
     IN ListIterate(r, [task EXCEPT !.summaries = Push(@, row)])
  /\ UNCHANGED <<pageVars, cmds, taskVars, bgVars, histVars, rlog, popupVars,
                 upgradeVars, utilVars, extraVars, siteDbs, siteRestore>>

\* restoreSnapshot on the listed page, for a snapshot that was taken of one of
\* its databases: for (storeName of stores) runs on the same global, and one
\* put is queued for each entry
SiteRestoreLoop(dbName) ==
  /\ siteRestore.pc = "idle"
  /\ dbName \in DOMAIN siteDbs
  /\ LET stores == SelectSeq(StoreOrder, LAMBDA n : n \in DOMAIN siteDbs[dbName].stores)
     IN /\ stores # <<>>
        /\ globalStoreName' = stores[Len(stores)]
        /\ siteRestore' = [pc |-> "tx", dbName |-> dbName,
                           puts |-> [j \in 1..Len(stores) |->
                                       [store |-> stores[j],
                                        n |-> siteDbs[dbName].stores[stores[j]]]]]
  /\ UNCHANGED <<pageVars, cmds, taskVars, bgVars, histVars, rlog, popupVars,
                 upgradeVars, utilVars, extraVars, siteDbs, listRuns>>

\* its transaction commits
SiteRestoreCommit ==
  /\ siteRestore.pc = "tx"
  /\ siteDbs' = [siteDbs EXCEPT ![siteRestore.dbName].stores =
                   [st \in DOMAIN @ |->
                      @[st] + (CHOOSE n \in 0..MaxCount :
                                 \E j \in 1..Len(siteRestore.puts) :
                                   siteRestore.puts[j] = [store |-> st, n |-> n])]]
  /\ siteRestore' = [siteRestore EXCEPT !.pc = "done"]
  /\ UNCHANGED <<pageVars, cmds, taskVars, bgVars, histVars, rlog, popupVars,
                 upgradeVars, utilVars, extraVars, globalStoreName, listRuns>>

\* ------------------------------------------------- popup: snapshot table
\* The windows of the tabs the popup is opened on
MetaWindows == {HttpWindow, OpaqueWindow}
MetaOrigins == {getOriginOrOpaque(w) : w \in MetaWindows}

\* valFn of getSnapshotMetadata: ({snapshot: _, ...metadata}) => metadata
StripSnapshot(v) ==
  [id |-> v.id, origin |-> v.origin, dbName |-> v.dbName, dbVersion |-> v.dbVersion,
   created |-> v.created, stores |-> v.stores, storeCount |-> v.storeCount,
   recordCount |-> v.recordCount]

\* The by_origin index under IDBKeyRange.only(origin): primary keys of the
\* records with that origin
ByOrigin(store, range) == {i \in DOMAIN store : store[i].origin = range}

\* What a cursor can be opened on: an object store, or an index of it on one
\* field, as entries of key, primary key and value
StoreTarget(store) ==
  {[key |-> i, primaryKey |-> i, value |-> store[i]] : i \in DOMAIN store}
IndexTarget(store, keyPath) ==
  {[key |-> store[i][keyPath], primaryKey |-> i, value |-> store[i]] : i \in DOMAIN store}

\* IDBKeyRange.only(key), IDBKeyRange.bound(lower, upper), and the keys of a range
Only(key) == [kind |-> "only", lower |-> key, upper |-> key]
Bound(lower, upper) == [kind |-> "bound", lower |-> lower, upper |-> upper]
InRange(range, key) ==
  CASE range.kind = "all"   -> TRUE
    [] range.kind = "only"  -> key = range.lower
    [] range.kind = "bound" -> range.lower <= key /\ key <= range.upper

\* A cursor walks the entries in ascending key order, entries with one key in
\* ascending primary key order
Before(a, b) ==
  IF a.key = b.key THEN a.primaryKey < b.primaryKey ELSE a.key < b.key

\* valFn = !!valFn ? valFn : (x) => x, applied to cursor.value
ApplyValFn(valFn, value) ==
  IF valFn = "metadata" THEN StripSnapshot(value) ELSE value

\* onsuccess with a cursor: collection.push(valFn(cursor.value)) and
\* cursor.continue(); without one: resolve(collection)
RECURSIVE CollectWalk(_, _)
CollectWalk(entries, valFn) ==
  IF entries = {} THEN <<>>
  ELSE LET e == CHOOSE a \in entries : \A b \in entries \ {a} : Before(a, b)
       IN <<ApplyValFn(valFn, e.value)>> \o CollectWalk(entries \ {e}, valFn)

\* Variant: cursorTarget.openCursor(), the range is not passed on
idbCursorCollectNoRange(cursorTarget, range, valFn) ==
  CollectWalk(cursorTarget, valFn)

idbCursorCollect(cursorTarget, range, valFn) ==
  CollectWalk({e \in cursorTarget : InRange(range, e.key)}, valFn)

\* opFn(cursor, accumulator) of idbCursorEach: the default (record, acc) =>
\* acc + 1 when none is passed, the callers' (cursor, acc) => {
\* cursor.delete(); return acc + 1 }, and two steps that depend on the record
\* and on the order, acc * 10 + cursor.primaryKey without and with a
\* cursor.delete(). The result is the new accumulator and the entries deleted.
ApplyOpFn(opFn, cursor, acc) ==
  CASE opFn = "undefined"    -> [acc |-> acc + 1, deleted |-> {}]
    [] opFn = "delete"       -> [acc |-> acc + 1, deleted |-> {cursor}]
    [] opFn = "digits"       -> [acc |-> acc * 10 + cursor.primaryKey, deleted |-> {}]
    [] opFn = "deleteDigits" -> [acc |-> acc * 10 + cursor.primaryKey,
                                 deleted |-> {cursor}]

\* onsuccess with a cursor: accumulator = opFn(cursor, accumulator) and
\* cursor.continue(), which moves to the first entry still in the target
\* behind the cursor's position (pos, <<>> before the first); without a
\* cursor: resolve(accumulator)
RECURSIVE EachWalk(_, _, _, _)
EachWalk(entries, pos, acc, opFn) ==
  LET ahead == {e \in entries : pos = <<>> \/ Before(pos[1], e)}
  IN IF ahead = {} THEN [acc |-> acc, deleted |-> {}]
     ELSE LET cursor == CHOOSE a \in ahead : \A b \in ahead \ {a} : Before(a, b)
              step == ApplyOpFn(opFn, cursor, acc)
              rest == EachWalk(entries \ step.deleted, <<cursor>>, step.acc, opFn)
          IN [acc |-> rest.acc, deleted |-> step.deleted \cup rest.deleted]

\* Variant: openCursor(range, "prev"), the walk goes from the last entry back
RECURSIVE EachWalkPrev(_, _, _, _)
EachWalkPrev(entries, pos, acc, opFn) ==
  LET ahead == {e \in entries : pos = <<>> \/ Before(e, pos[1])}
  IN IF ahead = {} THEN [acc |-> acc, deleted |-> {}]
     ELSE LET cursor == CHOOSE a \in ahead : \A b \in ahead \ {a} : Before(b, a)
              step == ApplyOpFn(opFn, cursor, acc)
              rest == EachWalkPrev(entries \ step.deleted, <<cursor>>, step.acc, opFn)
          IN [acc |-> rest.acc, deleted |-> step.deleted \cup rest.deleted]
idbCursorEachPrev(target, range, acc, opFn) ==
  EachWalkPrev({e \in target : InRange(range, e.key)}, <<>>, acc, opFn)

\* idbCursorEach(cursorTarget, range, acc, opFn) on a store or an index given
\* as entries: opFn is never falsy after its first line, so acc is the
\* accumulator as passed
idbCursorEachIn(target, range, acc, opFn) ==
  EachWalk({e \in target : InRange(range, e.key)}, <<>>, acc, opFn)

\* Array.prototype.sort with sortDateDesc = (a, b) => b.created - a.created:
\* a stable sort, so x goes behind every entry at least as recent
RECURSIVE InsertDateDesc(_, _)
InsertDateDesc(sorted, x) ==
  IF sorted = <<>> THEN <<x>>
  ELSE IF Head(sorted).created >= x.created
       THEN <<Head(sorted)>> \o InsertDateDesc(Tail(sorted), x)
       ELSE <<x>> \o sorted

RECURSIVE sortDateDesc(_, _)
sortDateDesc(seq, n) ==
  IF n = 0 THEN <<>> ELSE InsertDateDesc(sortDateDesc(seq, n - 1), seq[n])

\* Variant: the collected entries are returned as the cursor gave them
getSnapshotMetadataUnsorted(store, origin) ==
  idbCursorCollect(IndexTarget(store, "origin"), Only(origin), "metadata")

getSnapshotMetadata(store, origin) ==
  LET byOrigin == IndexTarget(store, "origin")
      range == Only(origin)
      snapshotMetadata == idbCursorCollect(byOrigin, range, "metadata")
  IN sortDateDesc(snapshotMetadata, Len(snapshotMetadata))

\* idbCursorEach(byOrigin, range, 0, (cursor, acc) => { cursor.delete();
\* return acc + 1 }) on the snapshots store
RECURSIVE OriginWalk(_, _, _)
OriginWalk(store, ids, acc) ==
  IF ids = {} THEN [store |-> store, acc |-> acc]
  ELSE LET k == CHOOSE i \in ids : \A j \in ids : i <= j
       IN OriginWalk([i \in DOMAIN store \ {k} |-> store[i]], ids \ {k}, acc + 1)

\* Variant: store.clear(), and the count of what was there
deleteAllSnapshotsClear(store, origin) ==
  [meta |-> [i \in {} |-> UndefinedPkg], count_deleted |-> Cardinality(DOMAIN store)]

\* Variant: the cursor is not continued after its first record
deleteAllSnapshotsFirst(store, origin) ==
  LET ids == ByOrigin(store, origin)
      one == {i \in ids : \A j \in ids : i <= j}
      walk == OriginWalk(store, one, 0)
  IN [meta |-> walk.store, count_deleted |-> walk.acc]

deleteAllSnapshots(store, origin) ==
  LET walk == OriginWalk(store, ByOrigin(store, origin), 0)
  IN [meta |-> walk.store, count_deleted |-> walk.acc]

othersVars == <<pageVars, taskVars, processing, wf, once, rlog, libVars>>

\* takeSnapshot in a tab of some origin has sent its "snapshot-data"
TabSnapshot(win, created) ==
  /\ Len(bgInbox) < MaxInFlight
  /\ (nextId - 1) + Len(SelectSeq(bgInbox, LAMBDA m : m.command = "snapshot-data"))
       < MaxAdds
  /\ LET storeSnapshots == [s \in StoreNames |-> getAll(SeedStore("inline").recs)]
         data == SnapshotPackage(win, DBNAME_PAGE, 1, created, StoreOrder,
                                 storeSnapshots)
     IN bgInbox' = Append(bgInbox, Msg("snapshot-data", data, 0))
  /\ UNCHANGED <<othersVars, cmds, meta, nextId, added, auxVars>>

\* "delete all snapshots" button, confirmed: deleteAllSnapshots(origin), which
\* ends by calling refreshSnapshotDisplay(origin)
DeleteAllCmd(origin) ==
  /\ cmds < MaxCmds
  /\ LET r == deleteAllSnapshots(meta, origin)
     IN /\ meta' = r.meta
        /\ dlog' = [n |-> dlog.n + 1, origin |-> origin,
                    count_deleted |-> r.count_deleted]
  /\ refreshes' = Append(refreshes, [pc |-> "query", origin |-> origin, rows |-> <<>>])
  /\ cmds' = cmds + 1
  /\ UNCHANGED <<othersVars, bgInbox, nextId, added, shown>>

\* The popup is opened on a tab: refreshSnapshotDisplay(origin) is called
RefreshCmd(origin) ==
  /\ cmds < MaxCmds
  /\ Len(refreshes) < MaxInFlight
  /\ refreshes' = Append(refreshes, [pc |-> "query", origin |-> origin, rows |-> <<>>])
  /\ cmds' = cmds + 1
  /\ UNCHANGED <<othersVars, bgVars, added, shown, dlog>>

\* getSnapshotMetadata(origin) of one call resolves: a readonly transaction
RefreshQuery(i) ==
  /\ i \in 1..Len(refreshes)
  /\ refreshes[i].pc = "query"
  /\ refreshes' = [refreshes EXCEPT ![i].pc = "display",
                     ![i].rows = getSnapshotMetadata(meta, refreshes[i].origin)]
  /\ UNCHANGED <<othersVars, cmds, bgVars, added, shown, dlog>>

\* displaySnapshots(origin, metadata) of one call
RefreshDisplay(i) ==
  /\ i \in 1..Len(refreshes)
  /\ refreshes[i].pc = "display"
  /\ shown' = [origin |-> refreshes[i].origin, rows |-> refreshes[i].rows]
  /\ refreshes' = SubSeq(refreshes, 1, i - 1) \o SubSeq(refreshes, i + 1, Len(refreshes))
  /\ UNCHANGED <<othersVars, cmds, bgVars, added, dlog>>

\* ------------------------------------------------------------ specification
Next ==
  \/ \E s \in StoreNames, k \in 0..MaxKey, d \in Data : PagePut(s, k, d)
  \/ \E s \in StoreNames, k \in Keys : PageDelete(s, k)
  \/ PageCreate
  \/ PageUpgrade
  \/ \E v \in ListedVersions : SnapshotCmd(v)
  \/ SnapOpened
  \/ SnapRead
  \/ ClearCmd
  \/ ClearOpened
  \/ ClearStore
  \/ DeleteCmd
  \/ \E b \in BOOLEAN : DeleteAnswer(b)
  \/ DeleteResolve
  \/ DeleteFail
  \/ \E id \in 1..MaxSnapshots : KickoffCmd(id)
  \/ \E id \in 1..MaxSnapshots : SnapshotDeleteCmd(id)
  \/ BgSnapshotData
  \/ BgProcessing
  \/ BgSnapshotDelete
  \/ RestoreOpened
  \/ \E f \in 0..MaxKey * Len(StoreOrder) : RestoreTx(f)
  \/ BgKickoff

Spec == Init /\ [][Next]_vars

\* Snapshot commands only, beside the page's own writes; every request
\* succeeds, and what is pending (a resolved promise's continuation, a message
\* to the background script) is eventually run
CaptureNext ==
  \/ \E s \in StoreNames, k \in 0..MaxKey, d \in Data : PagePut(s, k, d)
  \/ \E s \in StoreNames, k \in Keys : PageDelete(s, k)
  \/ \E v \in ListedVersions : SnapshotCmd(v)
  \/ SnapOpened
  \/ SnapRead
  \/ BgSnapshotData

SpecCapture ==
  /\ Init
  /\ [][CaptureNext]_vars
  /\ WF_vars(SnapOpened)
  /\ WF_vars(SnapRead)
  /\ WF_vars(BgSnapshotData)

\* A page on which nothing happens
StillPage ==
  /\ window = HttpWindow /\ schema = [s \in StoreNames |-> "inline"]
  /\ dbVersion = 1 /\ dbStores = StoreNames /\ db = EmptyDb
  /\ now = 0 /\ pageOps = 0 /\ cmds = 0
  /\ snapTask = SnapIdle /\ clearTask = ClearIdle /\ deleteTask = "idle"
  /\ restoreTask = RestoreIdle
  /\ bgInbox = <<>>
  /\ meta = [i \in {} |-> UndefinedPkg]
  /\ nextId = 1
  /\ processing = FALSE
  /\ added = [i \in {} |-> UndefinedPkg]
  /\ wf = WfNone /\ once = OnceNone /\ rlog = RlogNone

\* The metadata store, the background script and the popup's snapshot table,
\* with tabs of several origins sending snapshots
MetaInit == StillPage /\ AuxInit

MetaNext ==
  \/ \E win \in MetaWindows, created \in 0..MaxClock : TabSnapshot(win, created)
  \/ BgSnapshotData
  \/ \E id \in 1..MaxAdds : SnapshotDeleteCmd(id)
  \/ BgSnapshotDelete
  \/ \E origin \in MetaOrigins : DeleteAllCmd(origin)
  \/ \E origin \in MetaOrigins : RefreshCmd(origin)
  \/ \E i \in 1..MaxCmds : RefreshQuery(i)
  \/ \E i \in 1..MaxCmds : RefreshDisplay(i)

SpecMeta == MetaInit /\ [][MetaNext]_vars

\* versionUpgrades, applied to one upgradeneeded event
UpgradeInit ==
  /\ StillPage
  /\ PopupInit
  /\ ExtraIdle
  /\ ListingIdle
  /\ OriginIdle
  /\ RequestIdle
  /\ CursorIdle
  /\ upgradeEvent \in UpgradeEvents
  /\ upgradeRun = NotRun

UpgradeNext == UpgradeNeeded

SpecUpgrade == UpgradeInit /\ [][UpgradeNext]_vars

\* read_dbs.js, executed up to MaxRuns times on one page, beside a restore
DbShapes ==
  {[version |-> v, stores |-> st] :
     v \in 1..2, st \in UNION {[S -> 0..MaxCount] : S \in SUBSET StoreNames}}
Sites == UNION {[N -> DbShapes] : N \in SUBSET DbNames}

ListInit ==
  /\ StillPage
  /\ PopupInit
  /\ ExtraIdle
  /\ UpgradeIdle
  /\ OriginIdle
  /\ RequestIdle
  /\ CursorIdle
  /\ siteDbs \in Sites
  /\ globalStoreName = "undefined"
  /\ listRuns = [r \in Runs |-> ListIdle]
  /\ siteRestore = SiteRestoreIdle

ListNext ==
  \/ \E r \in Runs : ListStart(r)
  \/ \E r \in Runs : ListDatabases(r)
  \/ \E r \in Runs : ListOpened(r)
  \/ \E r \in Runs : ListCounted(r)
  \/ \E dbName \in DbNames : SiteRestoreLoop(dbName)
  \/ SiteRestoreCommit

SpecList == ListInit /\ [][ListNext]_vars

\* ------------------------------------------------------- getOriginOrOpaque
\* Everything that is not of the utility module
programVars == <<pageVars, cmds, taskVars, bgVars, histVars, rlog, popupVars,
                 upgradeVars, listVars, extraVars>>

\* window.origin and window.location.href of the contexts the function is
\* called in
OriginStrings == {"null", "https://shop.example", "https://blog.example"}
Hrefs == {"file:///shop.html", "file:///blog.html", "https://shop.example/",
          "https://blog.example/post", "data:text/html,shop"}
Windows == [origin : OriginStrings, href : Hrefs]
Contexts == 1..2

\* getOriginOrOpaque() is called in context c
OriginResolve(c) ==
  /\ originOut[c] = <<>>
  /\ originOut' = [originOut EXCEPT ![c] = getOriginOrOpaque(originCtx[c])]
  /\ UNCHANGED <<programVars, originCtx, requestVars, cursorVars>>

OriginInit ==
  /\ StillPage
  /\ PopupInit
  /\ ExtraIdle
  /\ UpgradeIdle
  /\ ListingIdle
  /\ RequestIdle
  /\ CursorIdle
  /\ originCtx \in [Contexts -> Windows]
  /\ originOut = [c \in Contexts |-> <<>>]

OriginNext == \E c \in Contexts : OriginResolve(c)

SpecOrigin == OriginInit /\ [][OriginNext]_vars

\* ------------------------------------------------------------- idbResponse
\* JavaScript values the promise of idbResponse settles with
NumberValue(n)  == [t |-> "number", n |-> n, s |-> <<>>]
RequestValue(n) == [t |-> "IDBRequest", n |-> n, s |-> <<>>]
UndefinedValue  == [t |-> "undefined", n |-> 0, s |-> <<>>]
StringValue(s)  == [t |-> "string", n |-> 0, s |-> s]

\* The onSuccess functions the callers pass: req => req.result, x => x and
\* req => undefined
OnSuccessFns == {"result", "identity", "undefined"}
onSuccess(fn, request) ==
  CASE fn = "result"    -> NumberValue(request.result)
    [] fn = "identity"  -> RequestValue(request.result)
    [] fn = "undefined" -> UndefinedValue
ErrorNames == {"AbortError", "ConstraintError", "DataError", "UnknownError"}

\* resolve and reject of a promise: the first call settles it, later calls
\* have no effect
Settle(promise, settlement) ==
  IF promise.state = "pending" THEN settlement ELSE promise

\* Variant: no onerror handler
idbResponseNoOnError(promise, request) == promise

\* request.onerror = (ev) => reject(`IDBRequest Error: ${ev.target.error}`)
idbResponseOnError(promise, request) ==
  Settle(promise, PromiseRejected(StringValue(<<"IDBRequest Error: ", request.error>>)))

\* request.onsuccess = (ev) => resolve(onSuccess(ev.target))
idbResponseOnSuccess(promise, request, fn) ==
  Settle(promise, PromiseResolved(onSuccess(fn, request)))

\* idbResponse(request, onSuccess): the promise is made and the two handlers
\* are set on the pending request
RequestWrap ==
  /\ reqRun.pc = "idle"
  /\ reqRun' = [reqRun EXCEPT !.pc = "pending"]
  /\ UNCHANGED <<programVars, originVars, reqIn, cursorVars>>

\* The request succeeds: its success event fires, once
RequestSuccess ==
  /\ reqRun.pc = "pending"
  /\ LET promise == idbResponseOnSuccess(reqRun.promise, reqIn, reqIn.onSuccess)
     IN reqRun' = [pc |-> "fired", event |-> "success", promise |-> promise,
                   settled |-> reqRun.settled
                               + (IF promise # reqRun.promise THEN 1 ELSE 0)]
  /\ UNCHANGED <<programVars, originVars, reqIn, cursorVars>>

\* The request fails: its error event fires, once
RequestError ==
  /\ reqRun.pc = "pending"
  /\ LET promise == idbResponseOnError(reqRun.promise, reqIn)
     IN reqRun' = [pc |-> "fired", event |-> "error", promise |-> promise,
                   settled |-> reqRun.settled
                               + (IF promise # reqRun.promise THEN 1 ELSE 0)]
  /\ UNCHANGED <<programVars, originVars, reqIn, cursorVars>>

RequestInit ==
  /\ StillPage
  /\ PopupInit
  /\ ExtraIdle
  /\ UpgradeIdle
  /\ ListingIdle
  /\ OriginIdle
  /\ CursorIdle
  /\ reqIn \in [result : 0..MaxResult, error : ErrorNames, onSuccess : OnSuccessFns]
  /\ reqRun = NotWrapped

RequestNext ==
  \/ RequestWrap
  \/ RequestSuccess
  \/ RequestError

SpecRequest == RequestInit /\ [][RequestNext]_vars

\* ------------------------------------------ idbCursorCollect, idbCursorEach
\* The stores the cursor helpers are called on: records of the snapshots
\* store under ids 1..MaxEntries, with the by_created index
CursorRecord(i, created) ==
  [UndefinedPkg EXCEPT !.id = i, !.created = created,
                       !.origin = <<"https://shop.example">>, !.dbName = DBNAME_PAGE]
CursorStores ==
  UNION {{[i \in ids |-> CursorRecord(i, created[i])] :
            created \in [ids -> 0..MaxClock]} : ids \in SUBSET (1..MaxEntries)}
CursorRanges ==
  {AllRange} \cup {Bound(l, u) : l \in 0..MaxEntries, u \in 0..MaxEntries}
\* The seeds and the steps idbCursorEach is called with
Seeds == 0..MaxSeed
OpFns == {"undefined", "delete", "digits", "deleteDigits"}
cursorTarget(in) ==
  IF in.target = "store" THEN StoreTarget(in.store)
  ELSE IndexTarget(in.store, "created")

\* idbCursorCollect(cursorTarget, range, valFn) or idbCursorEach(cursorTarget,
\* range, 0, delete-and-count) is called: openCursor(range), and the promise
CursorStart(fn, acc, opFn) ==
  /\ curRun.pc = "idle"
  /\ curRun' = [pc |-> "walking", fn |-> fn, promise |-> PromisePending,
                acc |-> acc, opFn |-> opFn, before |-> curIn.store]
  /\ UNCHANGED <<programVars, originVars, requestVars, curIn>>

\* Every success event of the walk is handled, down to the one without a
\* cursor: resolve(collection), resolve(accumulator)
CursorFinish ==
  /\ curRun.pc = "walking"
  /\ IF curRun.fn = "collect"
     THEN /\ curRun' = [curRun EXCEPT
                          !.pc = "done",
                          !.promise = PromiseResolved(
                            idbCursorCollect(cursorTarget(curIn), curIn.range,
                                             curIn.valFn))]
          /\ curIn' = curIn
     ELSE LET walk == idbCursorEachIn(cursorTarget(curIn), curIn.range,
                                      curRun.acc, curRun.opFn)
              kept == DOMAIN curIn.store \ {e.primaryKey : e \in walk.deleted}
          IN /\ curRun' = [curRun EXCEPT !.pc = "done",
                                         !.promise = PromiseResolved(NumberValue(walk.acc))]
             /\ curIn' = [curIn EXCEPT !.store = [i \in kept |-> curIn.store[i]]]
  /\ UNCHANGED <<programVars, originVars, requestVars>>

\* The cursor request fails somewhere in the walk: its error event fires; the
\* helpers set no onerror and reject is never called; the transaction aborts
CursorError ==
  /\ curRun.pc = "walking"
  /\ curRun' = [curRun EXCEPT !.pc = "failed"]
  /\ UNCHANGED <<programVars, originVars, requestVars, curIn>>

CursorInit ==
  /\ StillPage
  /\ PopupInit
  /\ ExtraIdle
  /\ UpgradeIdle
  /\ ListingIdle
  /\ OriginIdle
  /\ RequestIdle
  /\ curIn \in [store : CursorStores, target : {"store", "by_created"},
                range : CursorRanges, valFn : {"undefined", "metadata"}]
  /\ curRun = CursorNotRun

CursorNext ==
  \/ CursorStart("collect", 0, "")
  \/ \E acc \in Seeds, opFn \in OpFns : CursorStart("each", acc, opFn)
  \/ CursorFinish
  \/ CursorError

SpecCursor == CursorInit /\ [][CursorNext]_vars

\* --------------------------------------------------------------- dbConnect
\* Step 1 of dbConnect's upgradeFns on the database: createObjectStore
\* ("snapshots", {keyPath: "id", autoIncrement: true}) and five createIndex
createIndex(name, keyPath) == [name |-> name, keyPath |-> keyPath]
createObjectStore(name, keyPath, autoIncrement, indexes) ==
  [name |-> name, keyPath |-> keyPath, autoIncrement |-> autoIncrement,
   indexes |-> indexes]
UpgradeStep(dbrec, v) ==
  IF v = 1
  THEN [dbrec EXCEPT
          !.stores = @ \cup {createObjectStore("snapshots", "id", TRUE,
                       {createIndex("by_origin", "origin"),
                        createIndex("by_dbName", "dbName"),
                        createIndex("by_dbVersion", "dbVersion"),
                        createIndex("by_created", "created"),
                        createIndex("by_recordCount", "recordCount")})},
          !.steps = Append(@, v)]
  ELSE [dbrec EXCEPT !.steps = Append(@, v)]

\* for (const v of versionsSlice) upgradeFns[v](db)
RECURSIVE RunSteps(_, _)
RunSteps(dbrec, called) ==
  IF called = <<>> THEN dbrec
  ELSE RunSteps(UpgradeStep(dbrec, Head(called)), Tail(called))

\* Variant: every open request fires upgradeneeded
UpgradeNeededAlways(current, version) == TRUE

\* indexedDB.open(DBNAME, version) fires upgradeneeded when the database is
\* at a lower version (0: it does not exist)
UpgradeNeededFor(current, version) == current < version

\* dbConnect(): window.indexedDB.open(DBNAME, DBVERSION); the browser takes
\* the open requests on one database one after the other
DbConnect(c) ==
  /\ connects[c] = "idle"
  /\ connects' = [connects EXCEPT ![c] = "queued"]
  /\ openQueue' = Append(openQueue, c)
  /\ UNCHANGED <<pageVars, cmds, taskVars, bgVars, histVars, rlog, popupVars,
                 upgradeVars, listVars, utilVars, metaDb, deleteRuns, installVars, noticeVars, tableVars>>

\* The browser takes the first request: onupgradeneeded runs versionUpgrades
\* in a versionchange transaction, or onsuccess resolves the promise with the
\* connection
OpenTaken ==
  /\ openQueue # <<>>
  /\ connects[Head(openQueue)] = "queued"
  /\ IF UpgradeNeededFor(metaDb.version, DBVERSION)
     THEN LET run == versionUpgrades(metaDb.version, DBVERSION, {0, 1})
          IN /\ metaDb' = [RunSteps(metaDb, run.called) EXCEPT !.version = DBVERSION]
             /\ connects' = [connects EXCEPT ![Head(openQueue)] = "upgrading"]
             /\ openQueue' = openQueue
     ELSE /\ connects' = [connects EXCEPT ![Head(openQueue)] = "resolved"]
          /\ openQueue' = Tail(openQueue)
          /\ metaDb' = metaDb
  /\ UNCHANGED <<pageVars, cmds, taskVars, bgVars, histVars, rlog, popupVars,
                 upgradeVars, listVars, utilVars, deleteRuns, installVars, noticeVars, tableVars>>

\* The versionchange transaction commits: onsuccess, resolve(dbOpenReq.result)
OpenUpgraded ==
  /\ openQueue # <<>>
  /\ connects[Head(openQueue)] = "upgrading"
  /\ connects' = [connects EXCEPT ![Head(openQueue)] = "resolved"]
  /\ openQueue' = Tail(openQueue)
  /\ UNCHANGED <<pageVars, cmds, taskVars, bgVars, histVars, rlog, popupVars,
                 upgradeVars, listVars, utilVars, metaDb, deleteRuns, installVars, noticeVars, tableVars>>

\* The versionchange transaction aborts: the database goes back to what it
\* was, not existing; onerror, reject("Error opening ...")
OpenAborted ==
  /\ openQueue # <<>>
  /\ connects[Head(openQueue)] = "upgrading"
  /\ connects' = [connects EXCEPT ![Head(openQueue)] = "rejected"]
  /\ openQueue' = Tail(openQueue)
  /\ metaDb' = NoDatabase
  /\ UNCHANGED <<pageVars, cmds, taskVars, bgVars, histVars, rlog, popupVars,
                 upgradeVars, listVars, utilVars, deleteRuns, installVars, noticeVars, tableVars>>

ConnectInit ==
  /\ StillPage
  /\ PopupInit
  /\ UpgradeIdle
  /\ ListingIdle
  /\ OriginIdle
  /\ RequestIdle
  /\ CursorIdle
  /\ ConnectIdle
  /\ DeletesIdle
  /\ InstallIdle
  /\ NoticeIdle
  /\ TableIdle

ConnectNext ==
  \/ \E c \in Callers : DbConnect(c)
  \/ OpenTaken
  \/ OpenUpgraded
  \/ OpenAborted

SpecConnect == ConnectInit /\ [][ConnectNext]_vars

\* ------------------------------------------- deleteDb on several databases
\* A delete command for database d of the page: popup-confirm is sent
DbDeleteCmd(d) ==
  /\ deleteRuns[d].pc = "idle"
  /\ deleteRuns' = [deleteRuns EXCEPT ![d].pc = "confirm"]
  /\ UNCHANGED <<pageVars, cmds, taskVars, bgVars, histVars, rlog, popupVars,
                 upgradeVars, listVars, utilVars, connectVars, installVars, noticeVars, tableVars>>

\* Variant: the answer is not looked at
ContinueAlways(continueDelete) == TRUE

\* if (continueDelete)
Continue(continueDelete) == continueDelete

\* The popup's answer: on yes, "start-processing-notif" is sent and
\* indexedDB.deleteDatabase(dbName) is issued
DbDeleteAnswer(d, continueDelete) ==
  /\ deleteRuns[d].pc = "confirm"
  /\ IF Continue(continueDelete)
     THEN /\ bgInbox' = Append(bgInbox, Msg("start-processing-notif", UndefinedPkg, 0))
          /\ deleteRuns' = [deleteRuns EXCEPT
                              ![d] = [pc |-> "deleting",
                                      answer |-> IF continueDelete THEN "yes" ELSE "no",
                                      request |-> TRUE, start |-> TRUE]]
     ELSE /\ bgInbox' = bgInbox
          /\ deleteRuns' = [deleteRuns EXCEPT
                              ![d] = [@ EXCEPT !.pc = "canceled",
                                               !.answer = IF continueDelete THEN "yes"
                                                          ELSE "no"]]
  /\ UNCHANGED <<pageVars, cmds, taskVars, meta, nextId, processing, histVars, rlog,
                 popupVars, upgradeVars, listVars, utilVars, connectVars, installVars, noticeVars, tableVars>>

\* The delete request of d succeeds: "end-processing-notif" is sent
DbDeleteResolve(d) ==
  /\ deleteRuns[d].pc = "deleting"
  /\ siteDbs' = [n \in DOMAIN siteDbs \ {d} |-> siteDbs[n]]
  /\ bgInbox' = Append(bgInbox, Msg("end-processing-notif", UndefinedPkg, 0))
  /\ deleteRuns' = [deleteRuns EXCEPT ![d].pc = "deleted"]
  /\ UNCHANGED <<pageVars, cmds, taskVars, meta, nextId, processing, histVars, rlog,
                 popupVars, upgradeVars, globalStoreName, listRuns, siteRestore,
                 utilVars, connectVars, installVars, noticeVars, tableVars>>

\* The delete request of d fails: .catch logs the error
DbDeleteFail(d) ==
  /\ deleteRuns[d].pc = "deleting"
  /\ deleteRuns' = [deleteRuns EXCEPT ![d].pc = "failed"]
  /\ UNCHANGED <<pageVars, cmds, taskVars, bgVars, histVars, rlog, popupVars,
                 upgradeVars, listVars, utilVars, connectVars, installVars, noticeVars, tableVars>>

DeletesInit ==
  /\ StillPage
  /\ PopupInit
  /\ UpgradeIdle
  /\ OriginIdle
  /\ RequestIdle
  /\ CursorIdle
  /\ ConnectIdle
  /\ DeletesIdle
  /\ InstallIdle
  /\ NoticeIdle
  /\ TableIdle
  /\ siteDbs \in Sites
  /\ globalStoreName = "undefined"
  /\ listRuns = [r \in Runs |-> ListIdle]
  /\ siteRestore = SiteRestoreIdle

DeletesNext ==
  \/ \E d \in DbNames : DbDeleteCmd(d)
  \/ \E d \in DbNames, continueDelete \in BOOLEAN : DbDeleteAnswer(d, continueDelete)
  \/ \E d \in DbNames : DbDeleteResolve(d)
  \/ \E d \in DbNames : DbDeleteFail(d)
  \/ BgProcessing

SpecDeletes == DeletesInit /\ [][DeletesNext]_vars

\* ------------------------------------------------ install_message_handlers
\* Everything but the variables of dbConnect, of the deletes and of the
\* injections
coreVars == <<pageVars, cmds, taskVars, bgVars, histVars, rlog, popupVars,
              upgradeVars, listVars, utilVars>>

\* Variant: the flag on the window is not looked at
HasRunIgnored(flag) == FALSE

\* if (window.indexedDbUtilsInstallMessageHandlersHasRun) return
HasRun(flag) == flag

\* tabs.executeScript({file: ".../install_message_handlers.js"}): the script
\* runs up to its await import(...)
Inject(n) ==
  /\ injections[n] = "idle"
  /\ injections' = [injections EXCEPT ![n] = "importing"]
  /\ UNCHANGED <<coreVars, connectVars, deleteRuns, hasRun, listeners, deliveries, noticeVars, tableVars>>

\* The import resolved; the rest of the script runs in one turn: the flag is
\* read; if it is unset it is set and, with no await in between,
\* browser.runtime.onMessage.addListener is called
Imported(n) ==
  /\ injections[n] = "importing"
  /\ IF HasRun(hasRun)
     THEN /\ injections' = [injections EXCEPT ![n] = "returned"]
          /\ UNCHANGED <<hasRun, listeners, tableVars>>
     ELSE /\ injections' = [injections EXCEPT ![n] = "installed"]
          /\ hasRun' = TRUE
          /\ listeners' = listeners + 1
  /\ UNCHANGED <<coreVars, connectVars, deleteRuns, deliveries, noticeVars, tableVars>>

\* A command message is sent to the window: every registered listener is
\* called with it
Deliver ==
  /\ Len(deliveries) < MaxCmds
  /\ deliveries' = Append(deliveries,
       [handlers |-> listeners,
        injected |-> \E n \in 1..MaxInjects : injections[n] \in {"returned", "installed"}])
  /\ UNCHANGED <<coreVars, connectVars, deleteRuns, injections, hasRun, listeners, noticeVars, tableVars>>

InstallInit ==
  /\ StillPage
  /\ PopupInit
  /\ UpgradeIdle
  /\ ListingIdle
  /\ OriginIdle
  /\ RequestIdle
  /\ CursorIdle
  /\ ConnectIdle
  /\ DeletesIdle
  /\ InstallIdle
  /\ NoticeIdle
  /\ TableIdle

InstallNext ==
  \/ \E n \in 1..MaxInjects : Inject(n)
  \/ \E n \in 1..MaxInjects : Imported(n)
  \/ Deliver

SpecInstall == InstallInit /\ [][InstallNext]_vars

\* ------------------------------------------------- popup: processing notice
\* The popup is opened: its page shows the main contents, and setup() starts
\* (dbConnect, the content scripts, the listing)
PopupOpen ==
  /\ ~popup.open
  /\ popup' = [open |-> TRUE, listening |-> FALSE, notice |-> FALSE]
  /\ UNCHANGED <<coreVars, connectVars, deleteRuns, installVars, changes, toggling,
                 sets, tableVars>>

\* setup() reaches installPopupMessageHandlers: the storage.local.onChanged
\* listener is added; the flag itself is not read
PopupListen ==
  /\ popup.open /\ ~popup.listening
  /\ popup' = [popup EXCEPT !.listening = TRUE]
  /\ UNCHANGED <<coreVars, connectVars, deleteRuns, installVars, changes, toggling,
                 sets, tableVars>>

\* The popup is closed: its document, listeners and pending work are gone
PopupClose ==
  /\ popup.open
  /\ popup' = PopupClosed
  /\ changes' = <<>>
  /\ toggling' = 0
  /\ UNCHANGED <<coreVars, connectVars, deleteRuns, installVars, sets, tableVars>>

\* startProcessing / endProcessing in the background script:
\* storage.local.set({processing: value}); a listening popup gets a change
\* event when the value changes, and (fires) browsers differ on whether it
\* gets one when the value set is the value stored
StorageSet(value, fires) ==
  /\ sets < MaxSets
  /\ sets' = sets + 1
  /\ processing' = IF value THEN startProcessing(processing)
                   ELSE endProcessing(processing)
  /\ changes' = IF popup.listening /\ (processing' # processing \/ fires)
                THEN Append(changes, processing') ELSE changes
  /\ UNCHANGED <<pageVars, cmds, taskVars, bgInbox, meta, nextId, histVars, rlog,
                 popupVars, upgradeVars, listVars, utilVars,
                 connectVars, deleteRuns, installVars, popup, toggling, tableVars>>

\* The onChanged listener: toggleProcessingState(processing) up to its await;
\* with true the notice is shown at once, with false refreshDisplayDBs is
\* awaited first
Changed ==
  /\ changes # <<>>
  /\ changes' = Tail(changes)
  /\ IF Head(changes)
     THEN /\ popup' = [popup EXCEPT !.notice = TRUE]
          /\ toggling' = toggling
     ELSE /\ popup' = popup
          /\ toggling' = toggling + 1
  /\ UNCHANGED <<coreVars, connectVars, deleteRuns, installVars, sets, tableVars>>

\* refreshDisplayDBs resolved: the main contents are shown, the notice hidden
Toggled ==
  /\ toggling > 0
  /\ toggling' = toggling - 1
  /\ popup' = [popup EXCEPT !.notice = FALSE]
  /\ UNCHANGED <<coreVars, connectVars, deleteRuns, installVars, changes, sets, tableVars>>

NoticeInit ==
  /\ StillPage
  /\ PopupInit
  /\ UpgradeIdle
  /\ ListingIdle
  /\ OriginIdle
  /\ RequestIdle
  /\ CursorIdle
  /\ ConnectIdle
  /\ DeletesIdle
  /\ InstallIdle
  /\ NoticeIdle
  /\ TableIdle

NoticeNext ==
  \/ PopupOpen
  \/ PopupListen
  \/ PopupClose
  \/ \E value \in BOOLEAN, fires \in BOOLEAN : StorageSet(value, fires)
  \/ Changed
  \/ Toggled

SpecNotice == NoticeInit /\ [][NoticeNext]_vars

\* ------------------------------------ snapshot table: messages, transactions
\* What the steps around the snapshot table leave alone
tableOthers == <<pageVars, taskVars, processing, histVars, rlog, refreshes, dlog,
                 upgradeVars, listVars, utilVars, connectVars, deleteRuns,
                 installVars, noticeVars, pageOrigin>>

\* A transaction on the snapshots store: store.add(data), store.delete(key),
\* the delete-all walk over an origin, or the collecting walk of
\* getSnapshotMetadata(origin); trigger is the key whose snapshot-delete led
\* to the refresh (0: something else did)
Tx(mode, op, data, key, origin, trigger) ==
  [mode |-> mode, op |-> op, data |-> data, key |-> key, origin |-> origin,
   trigger |-> trigger]
CollectTx(origin, trigger) ==
  Tx("readonly", "collect", UndefinedPkg, 0, origin, trigger)

\* Variant: a transaction starts whatever is queued before it
CanStartAtOnce(queue, k) == TRUE

\* Transactions on one store start in the order they were created, except
\* that readonly ones need only wait for the readwrite ones before them
CanStart(queue, k) ==
  IF queue[k].mode = "readonly"
  THEN \A j \in 1..(k - 1) : queue[j].mode = "readonly"
  ELSE k = 1

Without(queue, k) == SubSeq(queue, 1, k - 1) \o SubSeq(queue, k + 1, Len(queue))

\* A tab sends the snapshot it has taken to the background script
TableSnapshot(win, created) ==
  /\ (nextId - 1) + Len(SelectSeq(bgInbox, LAMBDA m : m.command = "snapshot-data"))
       + Len(SelectSeq(txQueue, LAMBDA t : t.op = "add")) < MaxAdds
  /\ LET storeSnapshots == [s \in StoreNames |-> getAll(SeedStore("inline").recs)]
         data == SnapshotPackage(win, DBNAME_PAGE, 1, created, StoreOrder,
                                 storeSnapshots)
     IN bgInbox' = Append(bgInbox, Msg("snapshot-data", data, 0))
  /\ UNCHANGED <<tableOthers, cmds, meta, nextId, shown, txQueue, popupInbox, awaiting>>

\* "delete" button of a row the table has ever shown
TableDeleteCmd(id) ==
  /\ cmds < MaxCmds
  /\ id \in 1..(nextId - 1)
  /\ bgInbox' = Append(bgInbox, Msg("snapshot-delete", UndefinedPkg, id))
  /\ cmds' = cmds + 1
  /\ UNCHANGED <<tableOthers, meta, nextId, shown, txQueue, popupInbox, awaiting>>

\* The background script gets snapshot-data: snapshotData up to its await of
\* store.add(msg.data), or snapshot-delete: snapshotDelete, which places
\* store.delete(msg.snapshotKey) and sends refresh-snapshot-display at once
TableBgHandle ==
  /\ bgInbox # <<>>
  /\ bgInbox' = Tail(bgInbox)
  /\ LET msg == Head(bgInbox)
     IN IF msg.command = "snapshot-data"
        THEN /\ txQueue' = Append(txQueue, Tx("readwrite", "add", msg.data, 0, <<>>, 0))
             /\ popupInbox' = popupInbox
        ELSE /\ txQueue' = Append(txQueue, Tx("readwrite", "delete", UndefinedPkg,
                                              msg.snapshotKey, <<>>, 0))
             /\ popupInbox' = Append(popupInbox, msg.snapshotKey)
  /\ UNCHANGED <<tableOthers, cmds, meta, nextId, shown, awaiting>>

\* "delete all snapshots" button, confirmed: deleteAllSnapshots(origin) up to
\* its await of the walk
TableDeleteAllCmd ==
  /\ cmds < MaxCmds
  /\ cmds' = cmds + 1
  /\ txQueue' = Append(txQueue, Tx("readwrite", "deleteAll", UndefinedPkg, 0,
                                   pageOrigin, 0))
  /\ UNCHANGED <<tableOthers, bgInbox, meta, nextId, shown, popupInbox, awaiting>>

\* A readwrite transaction runs: the add succeeds and snapshotData sends
\* refresh-snapshot-display; the delete succeeds; the walk of
\* deleteAllSnapshots resolves and it calls refreshSnapshotDisplay(origin),
\* which with the origin given goes on to its own transaction
TxWrite ==
  /\ txQueue # <<>>
  /\ txQueue[1].mode = "readwrite"
  /\ CanStart(txQueue, 1)
  /\ LET tx == txQueue[1]
     IN CASE tx.op = "add" ->
               LET r == snapshotData(meta, nextId, tx.data)
               IN /\ meta' = r.meta
                  /\ nextId' = r.nextId
                  /\ popupInbox' = Append(popupInbox, 0)
                  /\ txQueue' = Tail(txQueue)
          [] tx.op = "delete" ->
               /\ meta' = snapshotDelete(meta, tx.key)
               /\ txQueue' = Tail(txQueue)
               /\ UNCHANGED <<nextId, popupInbox>>
          [] tx.op = "deleteAll" ->
               /\ meta' = deleteAllSnapshots(meta, tx.origin).meta
               /\ txQueue' = Append(Tail(txQueue), CollectTx(tx.origin, 0))
               /\ UNCHANGED <<nextId, popupInbox>>
  /\ UNCHANGED <<tableOthers, cmds, bgInbox, shown, awaiting>>

\* The popup gets refresh-snapshot-display: refreshSnapshotDisplay() up to
\* its await of getPageOrigin()
TablePopupHandle ==
  /\ popupInbox # <<>>
  /\ popupInbox' = Tail(popupInbox)
  /\ awaiting' = Append(awaiting, Head(popupInbox))
  /\ UNCHANGED <<tableOthers, cmds, bgInbox, meta, nextId, shown, txQueue>>

\* getPageOrigin() of one call resolved: getSnapshotMetadata(origin) creates
\* its readonly transaction and opens the cursor
TableOrigin(i) ==
  /\ i \in 1..Len(awaiting)
  /\ awaiting' = Without(awaiting, i)
  /\ txQueue' = Append(txQueue, CollectTx(pageOrigin, awaiting[i]))
  /\ UNCHANGED <<tableOthers, cmds, bgInbox, meta, nextId, shown, popupInbox>>

\* A readonly transaction runs; the last event of its walk resolves the
\* collection, and the sort and displaySnapshots(origin, metadata) follow in
\* the same turn of the event loop
TxRead(k) ==
  /\ k \in 1..Len(txQueue)
  /\ txQueue[k].mode = "readonly"
  /\ CanStart(txQueue, k)
  /\ shown' = [origin |-> txQueue[k].origin,
               rows |-> getSnapshotMetadata(meta, txQueue[k].origin)]
  /\ txQueue' = Without(txQueue, k)
  /\ UNCHANGED <<tableOthers, cmds, bgInbox, meta, nextId, popupInbox, awaiting>>

\* The popup is open on a page and setup() has displayed the empty store
TableInit ==
  /\ StillPage
  /\ refreshes = <<>>
  /\ dlog = DlogNone
  /\ UpgradeIdle
  /\ ListingIdle
  /\ OriginIdle
  /\ RequestIdle
  /\ CursorIdle
  /\ ConnectIdle
  /\ DeletesIdle
  /\ InstallIdle
  /\ NoticeIdle
  /\ pageOrigin \in MetaOrigins
  /\ shown = [origin |-> pageOrigin, rows |-> <<>>]
  /\ txQueue = <<>>
  /\ popupInbox = <<>>
  /\ awaiting = <<>>

TableNext ==
  \/ \E win \in MetaWindows, created \in 0..MaxClock : TableSnapshot(win, created)
  \/ \E id \in 1..MaxAdds : TableDeleteCmd(id)
  \/ TableBgHandle
  \/ TableDeleteAllCmd
  \/ TxWrite
  \/ TablePopupHandle
  \/ \E i \in 1..MaxCmds : TableOrigin(i)
  \/ \E k \in 1..(MaxCmds + MaxAdds) : TxRead(k)

SpecTable == TableInit /\ [][TableNext]_vars

\* ------------------------------------------------------------------ claims
\* The multiset of a sequence's members, and of a store's records
SeqBag(seq) ==
  [v \in Range(seq) |-> Cardinality({i \in 1..Len(seq) : seq[i] = v})]
StoreBag(recs) ==
  [v \in {recs[k] : k \in Keys} \ {Absent} |->
     Cardinality({k \in Keys : recs[k] = v})]

\* Every store of the database holds exactly the records the package captured
HoldsCaptured(pkg, d) ==
  \A s \in StoreNames :
    StoreBag(d[s].recs) = IF s \in DOMAIN pkg.snapshot THEN SeqBag(pkg.snapshot[s])
                          ELSE SeqBag(<<>>)

\* C1: with no other writer, after takeSnapshot, then clearDb, then
\* restoreSnapshot of that snapshot, every store holds exactly the multiset
\* of records captured for it.
C1_RoundTrip ==
  wf.stage = "restoredC" => HoldsCaptured(wf.pkg, db)

\* C2: after takeSnapshot, a confirmed deleteDb, the page re-creating the
\* database with the same stores, and restoreSnapshot of that snapshot, every
\* store holds exactly the records captured.
C2_SnapshotDeleteRestore ==
  wf.stage = "restoredD" => HoldsCaptured(wf.pkg, db)

\* Every record of the package is in the database
AllPresent(pkg, d) ==
  \A i \in 1..Len(pkg.stores) :
    LET s == pkg.stores[i]
    IN \A j \in 1..Len(pkg.snapshot[s]) :
         \E k \in Keys :
           d[s].recs[k] = IF HasKeyPath(schema[s]) THEN pkg.snapshot[s][j]
                          ELSE [pkg.snapshot[s][j] EXCEPT !.id = 0]

SameRecords(d1, d2) == \A s \in StoreNames : d1[s].recs = d2[s].recs

\* C3: when a restore has finished, succeeded or failed, either every record
\* of the package is in the database or the restore has written nothing; no
\* strict subset of its writes is committed.
C3_RestoreAtomic ==
  rlog.valid => AllPresent(rlog.pkg, rlog.after) \/ SameRecords(rlog.before, rlog.after)

\* C4: the result of restoreSnapshot is not settled while a write it issued
\* is pending, and it is a rejection when a write failed.
C4_SettlesAfterWrites ==
  /\ restoreTask.pc = "tx" /\ restoreTask.queue # <<>>
       => restoreTask.result.t = "pending"
  /\ rlog.valid /\ rlog.outcome = "abort" => rlog.result.t = "rejected"

\* The sum over the package's stores of the length of snapshot[store]
RECURSIVE PackageRecords(_, _)
PackageRecords(pkg, i) ==
  IF i > Len(pkg.stores) THEN 0
  ELSE Len(pkg.snapshot[pkg.stores[i]]) + PackageRecords(pkg, i + 1)

\* C5 (as stated): a restoreSnapshot that succeeds resolves with a number,
\* the sum over the package's stores of the length of snapshot[store].
C5_ResolvesWithCount ==
  restoreTask.pc = "tx" /\ restoreTask.result.t \notin {"pending", "rejected"}
    => restoreTask.result =
         [t |-> "number", len |-> PackageRecords(restoreTask.pkg, 1), name |-> ""]

\* C5 (amended): a restoreSnapshot that succeeds resolves with an array that
\* has one member per write issued; the array's length is the sum over the
\* package's stores of the length of snapshot[store].
C5_ResolvesWithArray ==
  restoreTask.pc = "tx" /\ restoreTask.result.t \notin {"pending", "rejected"}
    => restoreTask.result = JsArray(PackageRecords(restoreTask.pkg, 1))

C5_Witness ==
  /\ restoreTask.pc = "tx"
  /\ restoreTask.result.t = "array"
  /\ restoreTask.result.len = 3
  /\ Len(restoreTask.pkg.stores) = 2

AllKeyPath == \A s \in StoreNames : HasKeyPath(schema[s])

\* C6: when every store has inline keys, restoring the same snapshot a second
\* time in a row leaves every store with the records it had after the first
\* restore: records are overwritten by key, none is duplicated.
C6_RestoreIdempotent ==
  rlog.valid /\ rlog.second /\ AllKeyPath => SameRecords(rlog.before, rlog.after)

C6_Witness ==
  /\ rlog.valid /\ rlog.second /\ AllKeyPath
  /\ rlog.outcome = "commit"
  /\ \A s \in StoreNames : s \in DOMAIN rlog.pkg.snapshot /\ rlog.pkg.snapshot[s] # <<>>

\* The keys that occur in the package's snapshot for a store
SnapKeys(pkg, s) ==
  IF s \in Range(pkg.stores) /\ HasKeyPath(schema[s])
  THEN {pkg.snapshot[s][j].id : j \in 1..Len(pkg.snapshot[s])}
  ELSE {}

\* C7: a record that is in the database before a restore, under a key that
\* does not occur in the snapshot for its store, is there unchanged after the
\* restore; a restore deletes no record.
C7_RestoreMerges ==
  rlog.valid =>
    \A s \in StoreNames, k \in Keys :
      rlog.before[s].recs[k] # Absent /\ k \notin SnapKeys(rlog.pkg, s)
        => rlog.after[s].recs[k] = rlog.before[s].recs[k]

C7_Witness ==
  /\ rlog.valid /\ rlog.outcome = "commit"
  /\ \E s \in Range(rlog.pkg.stores) :
       /\ rlog.pkg.snapshot[s] # <<>>
       /\ rlog.after[s] # rlog.before[s]
       /\ \E k \in Keys : /\ rlog.before[s].recs[k] # Absent
                          /\ k \notin SnapKeys(rlog.pkg, s)

\* The records of a snapshot payload, one pair per record
PayloadRecords(snapshot) ==
  {sj \in (DOMAIN snapshot) \X (1..MaxKey) : sj[2] <= Len(snapshot[sj[1]])}

\* C8: every snapshot record in the metadata store has a recordCount equal to
\* the sum of the lengths of the record sequences of its snapshot payload.
C8_RecordCountIsSum ==
  \A id \in DOMAIN meta :
    meta[id].recordCount = Cardinality(PayloadRecords(meta[id].snapshot))

C8_Witness ==
  \E id \in DOMAIN meta :
    /\ meta[id].recordCount = 3
    /\ \A s \in StoreNames : s \in DOMAIN meta[id].snapshot /\ meta[id].snapshot[s] # <<>>

\* The package a step sends with "snapshot-data"
Captured ==
  /\ Len(bgInbox') = Len(bgInbox) + 1
  /\ bgInbox'[Len(bgInbox')].command = "snapshot-data"

C10_SnapshotsImmutable ==
  \A id \in DOMAIN added : id \in DOMAIN meta => meta[id] = added[id]

C10_Witness ==
  /\ DOMAIN added = {1, 2}
  /\ DOMAIN meta = {1}
  /\ meta[1] = added[1]
  /\ added[2] # [added[1] EXCEPT !.id = 2]

\* C11: across adds, single deletes and deletes by origin, a snapshot that
\* is stored gets an id that no snapshot has or ever had, the record carries
\* that id, and no stored record's id changes afterwards.
C11_IdsNeverReused ==
  [][/\ \A id \in DOMAIN meta' \ DOMAIN meta :
          id \notin DOMAIN added /\ meta'[id].id = id
     /\ \A id \in DOMAIN meta' \cap DOMAIN meta : meta'[id].id = meta[id].id]_vars

C11_Witness ==
  \E id \in DOMAIN added, later \in DOMAIN meta :
    /\ id \notin DOMAIN meta
    /\ later > id
    /\ dlog.n > 0

\* A step in which deleteAllSnapshots ran
DeletedAll == dlog'.n = dlog.n + 1

\* C12: deleteAllSnapshots(A) leaves every snapshot whose recorded origin is
\* not A where it is and as it is.
C12_OtherOriginsKept ==
  [][DeletedAll =>
       \A id \in DOMAIN meta :
         meta[id].origin # dlog'.origin
           => id \in DOMAIN meta' /\ meta'[id] = meta[id]]_vars

C12_Witness ==
  /\ dlog.n > 0
  /\ dlog.count_deleted > 0
  /\ \E id \in DOMAIN meta : meta[id].origin # dlog.origin

Listed(i) ==
  /\ Len(refreshes') = Len(refreshes)
  /\ i \in 1..Len(refreshes)
  /\ refreshes[i].pc = "query"
  /\ refreshes'[i].pc = "display"

\* C14: getSnapshotMetadata(origin) returns one entry for each stored
\* snapshot of that origin and none for another origin; an entry has every
\* field of the stored record, id included, but the snapshot payload; the
\* entries are in descending order of created.
C14_ListsOriginNewestFirst ==
  [][\A i \in 1..MaxCmds :
       Listed(i) =>
         LET rows == refreshes'[i].rows
             origin == refreshes[i].origin
         IN /\ \A id \in DOMAIN meta :
                 meta[id].origin = origin
                   => Cardinality({j \in 1..Len(rows) : rows[j].id = id}) = 1
            /\ \A j \in 1..Len(rows) :
                 /\ rows[j].id \in DOMAIN meta
                 /\ meta[rows[j].id].origin = origin
                 /\ DOMAIN rows[j] = DOMAIN meta[rows[j].id] \ {"snapshot"}
                 /\ \A f \in DOMAIN rows[j] : rows[j][f] = meta[rows[j].id][f]
            /\ \A j \in 1..(Len(rows) - 1) : rows[j].created >= rows[j + 1].created]_vars

C14_Witness ==
  \E i \in 1..Len(refreshes) :
    /\ refreshes[i].pc = "display"
    /\ Len(refreshes[i].rows) = 2
    /\ refreshes[i].rows[1].id = 2
    /\ refreshes[i].rows[1].created > refreshes[i].rows[2].created

\* The members of a set of numbers, in ascending order
RECURSIVE Ascending(_)
Ascending(S) ==
  IF S = {} THEN <<>>
  ELSE LET least == CHOOSE v \in S : \A w \in S : v <= w
       IN <<least>> \o Ascending(S \ {least})

\* C15: with the current and the requested version both among the keys,
\* versionUpgrades calls exactly the upgrade functions of the versions above
\* current and up to requested, each once, in ascending numeric order.
C15_RunsStepsInOrder ==
  /\ upgradeRun.done
  /\ upgradeEvent.oldVersion \in upgradeEvent.keys
  /\ upgradeEvent.newVersion \in upgradeEvent.keys
  => upgradeRun.called =
       Ascending({v \in upgradeEvent.keys :
                    upgradeEvent.oldVersion < v /\ v <= upgradeEvent.newVersion})

\* C16: when the current or the requested version is not among the keys,
\* versionUpgrades throws and has called no upgrade function.
C16_MissingVersionThrows ==
  /\ upgradeRun.done
  /\ \/ upgradeEvent.oldVersion \notin upgradeEvent.keys
     \/ upgradeEvent.newVersion \notin upgradeEvent.keys
  => upgradeRun.threw # "" /\ upgradeRun.called = <<>>

C16_Witness ==
  /\ upgradeRun.done
  /\ upgradeEvent.oldVersion \in upgradeEvent.keys
  /\ upgradeEvent.newVersion \notin upgradeEvent.keys
  /\ \E v \in upgradeEvent.keys : v > upgradeEvent.oldVersion
  /\ upgradeRun.threw = "upgradeFns missing requested version"

\* The (database, store) pairs of a site, the row of a pair, and sums
Pairs(site) ==
  {pair \in DbNames \X StoreNames :
     pair[1] \in DOMAIN site /\ pair[2] \in DOMAIN site[pair[1]].stores}
RowOf(site, pair) ==
  [name |-> pair[1], version |-> site[pair[1]].version, store |-> pair[2],
   indexes |-> StoreIndexes(pair[2]), count |-> site[pair[1]].stores[pair[2]]]
RECURSIVE TotalRecords(_, _)
TotalRecords(site, pairs) ==
  IF pairs = {} THEN 0
  ELSE LET pair == CHOOSE q \in pairs : TRUE
       IN site[pair[1]].stores[pair[2]] + TotalRecords(site, pairs \ {pair})
RECURSIVE SumCounts(_, _)
SumCounts(rows, j) ==
  IF j > Len(rows) THEN 0 ELSE rows[j].count + SumCounts(rows, j + 1)
ExactRows(rows) ==
  /\ Len(rows) = Cardinality(Pairs(siteDbs))
  /\ Range(rows) = {RowOf(siteDbs, pair) : pair \in Pairs(siteDbs)}
  /\ SumCounts(rows, 1) = TotalRecords(siteDbs, Pairs(siteDbs))
RanAlone(r) ==
  /\ listRuns[r].pc = "done"
  /\ \A q \in Runs \ {r} : listRuns[q].pc = "idle"
  /\ siteRestore.pc = "idle"

\* C17: a single run of read_dbs over databases with N stores and R records
\* in total returns exactly N rows, one for each (database, store) pair with
\* the pair's name, version, store name and count, and the counts sum to R.
C17_ListsEveryStore ==
  \A r \in Runs : RanAlone(r) => ExactRows(listRuns[r].summaries)

C17_Witness ==
  /\ RanAlone(1)
  /\ DOMAIN siteDbs = DbNames
  /\ Cardinality(Pairs(siteDbs)) >= 3
  /\ TotalRecords(siteDbs, Pairs(siteDbs)) >= 2
  /\ Len(listRuns[1].summaries) >= 3

\* C18: a run of read_dbs that interleaved with another run or with a restore
\* returns rows whose store name is the store whose count the row reports, and
\* with no restore on the page exactly the rows of a run that ran alone.
C18_ListingsIndependent ==
  \A r \in Runs :
    listRuns[r].pc = "done" =>
      /\ \A j \in 1..Len(listRuns[r].summaries) :
           listRuns[r].summaries[j].store = listRuns[r].counted[j]
      /\ siteRestore.pc = "idle" => ExactRows(listRuns[r].summaries)

\* clearDb finishes, having started on an existing database and with no other
\* writer since the command arrived
ClearCompletes == clearTask.pc # "idle" /\ clearTask'.pc = "idle"
ClearedAlone   == ClearCompletes /\ clearTask.alone
RECURSIVE RecordsIn(_, _)
RecordsIn(dbv, stores) ==
  IF stores = {} THEN 0
  ELSE LET s == CHOOSE t \in stores : TRUE
       IN Cardinality({k \in 1..MaxKey : dbv[s].recs[k] # Absent})
          + RecordsIn(dbv, stores \ {s})

\* C19: when clearDb completes with no concurrent writer, every store of the
\* database holds no record, and the database's version, its set of stores
\* and their definitions are those of before the clear.
C19_ClearEmptiesStores ==
  [][ClearedAlone /\ clearTask.before.dbVersion > 0 =>
       /\ \A s \in StoreNames : \A k \in 1..MaxKey : db'[s].recs[k] = Absent
       /\ dbVersion' = clearTask.before.dbVersion
       /\ dbStores' = clearTask.before.dbStores
       /\ schema' = clearTask.before.schema]_vars

C19_Witness ==
  /\ cmds = 1 /\ pageOps = 0
  /\ clearTask.pc = "idle" /\ clearTask.result = JsUndefined
  /\ clearTask.deleted = 2
  /\ dbVersion > 0 /\ dbStores = StoreNames
  /\ \A s \in StoreNames : \A k \in 1..MaxKey : db[s].recs[k] = Absent

\* C20 as stated: the count clearDb computes is the number of records the
\* stores held when the clear started, and the command's result is that count.
C20_ResultIsCount ==
  [][ClearedAlone =>
       /\ clearTask'.deleted = RecordsIn(clearTask.before.db, clearTask.before.dbStores)
       /\ clearTask'.result = JsNumber(clearTask'.deleted)]_vars

\* C20 as the code has it: the count clearDb computes and logs is the number
\* of records the stores held when the clear started; clearDb returns no
\* value, so the command's result is undefined.
C20_CountLoggedOnly ==
  [][ClearedAlone =>
       /\ clearTask'.deleted = RecordsIn(clearTask.before.db, clearTask.before.dbStores)
       /\ clearTask'.result = JsUndefined]_vars

C20_Witness ==
  /\ cmds = 1 /\ pageOps = 0
  /\ clearTask.pc = "idle" /\ clearTask.result = JsUndefined
  /\ clearTask.deleted = 2
  /\ snapTask = SnapIdle /\ restoreTask = RestoreIdle /\ deleteTask = "idle"

\* C21: in every state where the request of indexedDB.deleteDatabase has been
\* issued and has not settled, the processing flag is true.
C21_FlagRaisedBeforeDelete ==
  deleteTask = "deleting" => processing

\* C22: once the delete request has settled and every message has been
\* handled, the processing flag is false.
C22_FlagLoweredAfterDelete ==
  deleteTask = "idle" /\ bgInbox = <<>> => ~processing

\* C23: no step of takeSnapshot on an existing database changes the
\* database's version, its set of stores, their definitions or any record.
C23_CaptureReadsOnly ==
  [][snapTask' # snapTask /\ dbVersion > 0 =>
       /\ dbVersion' = dbVersion
       /\ dbStores' = dbStores
       /\ schema' = schema
       /\ db' = db]_vars

C23_Witness ==
  /\ cmds = 1 /\ pageOps = 0
  /\ snapTask = SnapIdle
  /\ Len(bgInbox) = 1 /\ Head(bgInbox).command = "snapshot-data"
  /\ Head(bgInbox).data.recordCount >= 2
  /\ dbVersion = 1 /\ dbStores = StoreNames
  /\ \A s \in StoreNames : \E k \in 1..MaxKey : db[s].recs[k] # Absent

\* The records of a store in ascending key order
Contents(recs) ==
  LET ks == Ascending({k \in 1..MaxKey : recs[k] # Absent})
  IN [j \in 1..Len(ks) |-> recs[ks[j]]]
\* What capture holds after a step: its partial mapping, or the package sent
CapturedAfter ==
  IF snapTask'.pc = "read" THEN snapTask'.storeSnapshots
  ELSE bgInbox'[Len(bgInbox')].data.snapshot

\* C24: the step in which capture reads a store records that store's complete
\* contents as they are at that instant, and leaves what it recorded for the
\* stores read earlier as it was; other writers may act between two reads.
C24_EachStoreAtOneInstant ==
  [][snapTask.pc = "read" /\ snapTask' # snapTask =>
       LET s == snapTask.storeNames[snapTask.i]
       IN /\ CapturedAfter[s] = Contents(db[s].recs)
          /\ \A j \in 1..(snapTask.i - 1) :
               CapturedAfter[snapTask.storeNames[j]] =
                 snapTask.storeSnapshots[snapTask.storeNames[j]]]_vars

\* A package that equals the database at no instant: orders was read before a
\* clear emptied both stores, users after it
C24_Witness ==
  /\ cmds = 2 /\ pageOps = 0
  /\ clearTask.pc = "idle" /\ clearTask.result = JsUndefined /\ clearTask.deleted = 2
  /\ snapTask = SnapIdle
  /\ Len(bgInbox) = 1 /\ Head(bgInbox).command = "snapshot-data"
  /\ Head(bgInbox).data.snapshot["orders"] # <<>>
  /\ Head(bgInbox).data.snapshot["users"] = <<>>

\* C25: getOriginOrOpaque returns window.origin itself unless that is "null",
\* and then the tagged location; the result is never the bare "null", and two
\* opaque contexts with different locations get different results.
C25_OriginResolution ==
  /\ \A c \in Contexts :
       originOut[c] # <<>> =>
         /\ originCtx[c].origin # "null" => originOut[c] = <<originCtx[c].origin>>
         /\ originCtx[c].origin = "null" =>
              /\ Len(originOut[c]) = 2
              /\ originOut[c][1] = "[opaque]"
              /\ originOut[c][2] = originCtx[c].href
         /\ originOut[c] # <<"null">>
  /\ \A c, d \in Contexts :
       /\ originOut[c] # <<>> /\ originOut[d] # <<>>
       /\ originCtx[c].origin = "null" /\ originCtx[d].origin = "null"
       /\ originCtx[c].href # originCtx[d].href
       => originOut[c] # originOut[d]

C25_Witness ==
  /\ originCtx # <<>>
  /\ originCtx[1].origin = "null" /\ originCtx[2].origin = "null"
  /\ originCtx[1].href # originCtx[2].href
  /\ originOut[1] # <<>> /\ originOut[2] # <<>>

\* The background script handles a kickoff-snapshot-restore whose id has no
\* record in the snapshots store
KickoffMissing ==
  /\ bgInbox # <<>>
  /\ Head(bgInbox).command = "kickoff-snapshot-restore"
  /\ Head(bgInbox).snapshotKey \notin DOMAIN meta
  /\ bgInbox' = Tail(bgInbox)

\* C26: the get of an id without a record resolves with undefined, which
\* kickoffSnapshotRestore passes on as the snapshot of its restore-snapshot
\* message; the get itself does not fail.
C26_MissingIdIsUndefined ==
  [][KickoffMissing =>
       /\ rlog'.valid
       /\ rlog'.pkg = UndefinedPkg
       /\ rlog'.threw = "TypeError"
       /\ restoreTask' = restoreTask]_vars

C26_Witness ==
  /\ nextId = 2 /\ DOMAIN meta = {}
  /\ cmds = 3 /\ bgInbox = <<>>
  /\ rlog.valid /\ rlog.pkg = UndefinedPkg /\ rlog.outcome = "none"

\* The background script handles a snapshot-data message
AddsSnapshot ==
  /\ bgInbox # <<>>
  /\ Head(bgInbox).command = "snapshot-data"
  /\ bgInbox' = Tail(bgInbox)

\* C27: the package a snapshot command sends carries the command's dbName and
\* dbVersion; handling it adds exactly one record, under a new id and with the
\* package's fields, and changes no record that was there; and after k
\* snapshot commands the store eventually holds k records.
C27_OneRecordPerSnapshot ==
  /\ [][Captured =>
          /\ bgInbox'[Len(bgInbox')].data.dbName = DBNAME_PAGE
          /\ bgInbox'[Len(bgInbox')].data.dbVersion = snapTask.dbVersion]_vars
  /\ [][AddsSnapshot =>
          /\ Cardinality(DOMAIN meta') = Cardinality(DOMAIN meta) + 1
          /\ \A i \in DOMAIN meta : i \in DOMAIN meta' /\ meta'[i] = meta[i]
          /\ \A i \in DOMAIN meta' \ DOMAIN meta :
               [meta'[i] EXCEPT !.id = 0] = Head(bgInbox).data]_vars
  /\ \A k \in 1..MaxSnapshots :
       (cmds = k) ~> (Cardinality(DOMAIN meta) = k)

C27_Witness ==
  /\ cmds = 2
  /\ snapTask = SnapIdle /\ bgInbox = <<>>
  /\ Cardinality(DOMAIN meta) = 2
  /\ \A i \in DOMAIN meta : meta[i].dbName = DBNAME_PAGE /\ meta[i].dbVersion = 1
  /\ \E i, j \in DOMAIN meta : meta[i].recordCount # meta[j].recordCount

\* C28: the promise of idbResponse is pending until the request's event
\* fires; after the success event it is resolved with onSuccess applied to the
\* request, after the error event it is rejected with a reason that carries
\* the request's error; it is settled once, and in one way only.
C28_SettlesExactlyOnce ==
  /\ reqRun.pc \in {"idle", "pending"} =>
       reqRun.promise.state = "pending" /\ reqRun.settled = 0
  /\ reqRun.pc = "fired" =>
       /\ reqRun.settled = 1
       /\ reqRun.event = "success" =>
            /\ reqRun.promise.state = "resolved"
            /\ reqRun.promise.value =
                 <<CASE reqIn.onSuccess = "result"    -> NumberValue(reqIn.result)
                     [] reqIn.onSuccess = "identity"  -> RequestValue(reqIn.result)
                     [] reqIn.onSuccess = "undefined" -> UndefinedValue>>
       /\ reqRun.event = "error" =>
            /\ reqRun.promise.state = "rejected"
            /\ reqRun.promise.value[1].t = "string"
            /\ reqRun.promise.value[1].s[2] = reqIn.error

C28_Witness ==
  /\ reqRun.pc = "fired" /\ reqRun.event = "error"
  /\ reqRun.promise.state = "rejected"
  /\ reqIn.error = "ConstraintError" /\ reqIn.onSuccess = "result"

\* The key a record has in the cursor's target, the records in the range, and
\* the place of a record among them
KeyIn(i) == IF curIn.target = "store" THEN i ELSE curIn.store[i].created
Ranged ==
  {i \in DOMAIN curIn.store :
     curIn.range.kind = "all"
       \/ (curIn.range.lower <= KeyIn(i) /\ KeyIn(i) <= curIn.range.upper)}
Place(i) ==
  1 + Cardinality({j \in Ranged :
                     KeyIn(j) < KeyIn(i) \/ (KeyIn(j) = KeyIn(i) /\ j < i)})

\* C29: idbCursorCollect resolves with one entry for each record of the target
\* in the range and none for any other, in ascending order of key (and of
\* primary key under one key); the entry is the record without its snapshot
\* field under that transform, and the record itself with no transform.
C29_CollectsRangeInOrder ==
  curRun.pc = "done" /\ curRun.fn = "collect" =>
    /\ curRun.promise.state = "resolved"
    /\ LET collection == curRun.promise.value[1]
       IN /\ Len(collection) = Cardinality(Ranged)
          /\ \A i \in Ranged :
               LET entry == collection[Place(i)]
                   record == curIn.store[i]
               IN IF curIn.valFn = "undefined"
                  THEN entry = record
                  ELSE /\ DOMAIN entry = DOMAIN record \ {"snapshot"}
                       /\ \A f \in DOMAIN entry : entry[f] = record[f]

C29_Witness ==
  /\ curRun.pc = "done" /\ curRun.fn = "collect"
  /\ curIn.target = "by_created" /\ curIn.range = Bound(0, 1)
  /\ curIn.valFn = "undefined"
  /\ DOMAIN curIn.store = 1..MaxEntries
  /\ curIn.store[1].created = 1 /\ curIn.store[2].created = 0
  /\ Len(curRun.promise.value[1]) = 3

\* C30: when the walk of idbCursorCollect or idbCursorEach has failed, the
\* promise the helper returned is rejected.
C30_WalkFailureRejects ==
  curRun.pc = "failed" => curRun.promise.state = "rejected"


\* The key a record had in the cursor's target when idbCursorEach was called,
\* the records then in the range, their places in the walk, and the left fold
\* of the step over them from the seed
KeyAt(i) == IF curIn.target = "store" THEN i ELSE curRun.before[i].created
RangedBefore ==
  {i \in DOMAIN curRun.before :
     curIn.range.kind = "all"
       \/ (curIn.range.lower <= KeyAt(i) /\ KeyAt(i) <= curIn.range.upper)}
PlaceBefore(i) ==
  1 + Cardinality({j \in RangedBefore :
                     KeyAt(j) < KeyAt(i) \/ (KeyAt(j) = KeyAt(i) /\ j < i)})
WalkOrder ==
  [n \in 1..Cardinality(RangedBefore) |->
     CHOOSE i \in RangedBefore : PlaceBefore(i) = n]
StepOf(opFn, i, acc) ==
  IF opFn \in {"undefined", "delete"} THEN acc + 1 ELSE acc * 10 + i
RECURSIVE FoldLeft(_, _)
FoldLeft(opFn, n) ==
  IF n = 0 THEN curRun.acc ELSE StepOf(opFn, WalkOrder[n], FoldLeft(opFn, n - 1))

\* C31: idbCursorEach resolves with the left fold of the step over the records
\* in the range, in walk order, from the seed, each record visited once also
\* when the step deletes the record under the cursor (then exactly the records
\* in the range are gone); over an empty range it resolves with the seed; with
\* the default step it resolves with the seed plus the number of records in
\* the range and no record is modified.
C31_FoldsInWalkOrder ==
  curRun.pc = "done" /\ curRun.fn = "each" =>
    /\ curRun.promise = PromiseResolved(NumberValue(
                          FoldLeft(curRun.opFn, Cardinality(RangedBefore))))
    /\ RangedBefore = {} => curRun.promise = PromiseResolved(NumberValue(curRun.acc))
    /\ curRun.opFn = "undefined" =>
         curRun.promise = PromiseResolved(NumberValue(
                            curRun.acc + Cardinality(RangedBefore)))
    /\ curRun.opFn \in {"undefined", "digits"} => curIn.store = curRun.before
    /\ curRun.opFn \in {"delete", "deleteDigits"} =>
         curIn.store = [i \in DOMAIN curRun.before \ RangedBefore |-> curRun.before[i]]

C31_Witness ==
  /\ curRun.pc = "done" /\ curRun.fn = "each"
  /\ curRun.opFn = "deleteDigits" /\ curRun.acc = 1
  /\ curIn.target = "by_created" /\ curIn.range = AllRange
  /\ DOMAIN curRun.before = 1..MaxEntries
  /\ curRun.before[1].created = 1 /\ curRun.before[2].created = 0
  /\ curRun.before[3].created = 1
  /\ curRun.promise = PromiseResolved(NumberValue(1213))
  /\ DOMAIN curIn.store = {}


\* C32: whatever dbConnect calls the popup and the background script make,
\* one after the other or at the same time, upgrade step 1 has run exactly
\* once on the extension's database as soon as it exists (and no other step
\* that creates anything); the database is then at version 1 with exactly the
\* store "snapshots", key path id, autoincrementing, with the indexes
\* by_origin, by_dbName, by_dbVersion, by_created and by_recordCount; every
\* connection handed out is to that database.
C32_UpgradesOnce ==
  LET snapshots ==
        [name |-> "snapshots", keyPath |-> "id", autoIncrement |-> TRUE,
         indexes |-> {[name |-> "by_origin", keyPath |-> "origin"],
                      [name |-> "by_dbName", keyPath |-> "dbName"],
                      [name |-> "by_dbVersion", keyPath |-> "dbVersion"],
                      [name |-> "by_created", keyPath |-> "created"],
                      [name |-> "by_recordCount", keyPath |-> "recordCount"]}]
  IN /\ metaDb.version \in {0, 1}
     /\ metaDb.version = 0 => metaDb = NoDatabase
     /\ metaDb.version = 1 => metaDb.steps = <<1>> /\ metaDb.stores = {snapshots}
     /\ (\E c \in Callers : connects[c] = "resolved") => metaDb.version = 1

C32_Witness ==
  /\ connects[<<"popup", 1>>] = "resolved"
  /\ connects[<<"background", 1>>] = "resolved"
  /\ connects[<<"popup", 2>>] = "queued"
  /\ connects[<<"background", 2>>] = "rejected"
  /\ metaDb.version = 1


\* C33: the processing flag is one boolean and the last notification handled
\* decides it, whichever delete sent it: a start notification leaves it true,
\* an end notification leaves it false even when another delete is under way.
C33_LastWriterWins ==
  [][bgInbox # <<>> /\ bgInbox' = Tail(bgInbox) =>
       /\ processing' \in BOOLEAN
       /\ processing' = (Head(bgInbox).command = "start-processing-notif")]_vars

\* The race: both deletes confirmed, every notification handled, one delete
\* finished and lowered the flag, the other still in progress
C33_Witness ==
  /\ deleteRuns["blog"].pc = "deleted"
  /\ deleteRuns["shop"].pc = "deleting"
  /\ "shop" \in DOMAIN siteDbs
  /\ bgInbox = <<>>
  /\ processing = FALSE


\* C34: however many times install_message_handlers.js is injected into a
\* window, also with the imports of several injections under way at once, at
\* most one onMessage listener is registered; once an injection has finished
\* there is exactly one, and every command message sent from then on is
\* handled exactly once.
C34_HandlersInstalledOnce ==
  /\ listeners <= 1
  /\ (\E n \in 1..MaxInjects : injections[n] \in {"returned", "installed"}) =>
       listeners = 1
  /\ Cardinality({n \in 1..MaxInjects : injections[n] = "installed"}) = listeners
  /\ \A m \in 1..Len(deliveries) :
       /\ deliveries[m].handlers <= 1
       /\ deliveries[m].injected => deliveries[m].handlers = 1

\* Three injections whose imports overlapped, and a command after them
C34_Witness ==
  /\ injections[1] = "returned" /\ injections[2] = "installed"
  /\ injections[3] = "importing"
  /\ Len(deliveries) = 2
  /\ deliveries[1].handlers = 0
  /\ deliveries[2].handlers = 1


\* C35: the step in which a snapshot, clear or restore command's open of the
\* database resolves leaves the database's existence, version and object
\* stores as they were, also when the database does not exist at that moment.
C35_CommandsCreateNothing ==
  [][\/ snapTask.pc = "open" /\ snapTask'.pc # "open"
     \/ clearTask.pc = "open" /\ clearTask'.pc # "open"
     \/ restoreTask.pc = "open" /\ restoreTask'.pc # "open"
     => dbVersion' = dbVersion /\ dbStores' = dbStores]_vars


\* C39: a kickoff-snapshot-restore for an id without a stored snapshot is a
\* no-op: nothing throws in the background script or the content script, and
\* the page and its database are left as they were.
C39_MissingSnapshotIsNoOp ==
  [][KickoffMissing =>
       /\ rlog'.threw = ""
       /\ rlog'.result.t # "rejected"
       /\ pageVars' = pageVars]_vars


\* C36: a database goes away only in a delete the popup answered with yes;
\* after a negative answer no delete request has been issued and no start
\* notification sent for that command, and the step of the negative answer
\* changes no database, sends nothing and leaves the processing flag alone.
C36_DeleteOnlyAfterYes ==
  /\ [](\A d \in DbNames :
          deleteRuns[d].answer = "no" =>
            /\ deleteRuns[d].pc = "canceled"
            /\ ~deleteRuns[d].request
            /\ ~deleteRuns[d].start)
  /\ [][/\ \A d \in DOMAIN siteDbs \ DOMAIN siteDbs' :
             deleteRuns[d].answer = "yes" /\ deleteRuns[d].request
        /\ (\E d \in DbNames : deleteRuns[d].answer = "" /\ deleteRuns'[d].answer = "no")
             => siteDbs' = siteDbs /\ bgInbox' = bgInbox /\ processing' = processing]_vars

\* One delete was declined and its database is still there, the other was
\* confirmed and its database is gone
C36_Witness ==
  /\ deleteRuns["blog"].answer = "no" /\ "blog" \in DOMAIN siteDbs
  /\ deleteRuns["shop"].answer = "yes" /\ deleteRuns["shop"].pc = "deleted"
  /\ processing = FALSE /\ bgInbox = <<>>


\* C37: whenever the popup is open, its setup has run, and it has handled
\* every storage change it was sent, the processing notice is shown (and the
\* main contents hidden) exactly when the stored processing flag is true.
C37_NoticeReflectsFlag ==
  popup.open /\ popup.listening /\ changes = <<>> /\ toggling = 0 =>
    (popup.notice <=> processing)


\* Nothing is on its way: no message to the background script or the popup,
\* no refresh awaiting the origin, no transaction unfinished
Settled ==
  bgInbox = <<>> /\ popupInbox = <<>> /\ awaiting = <<>> /\ txQueue = <<>>

\* C38: once every message has been delivered and every refresh, overlapping
\* ones included, has finished, the rows of the popup's snapshot table are
\* exactly the stored snapshots of the page's origin (each once, with the
\* stored fields but the payload); and the refresh a snapshot-delete
\* triggered does not display the deleted snapshot.
C38_TableConverges ==
  /\ [](Settled =>
          /\ shown.origin = pageOrigin
          /\ \A id \in DOMAIN meta :
               meta[id].origin = pageOrigin =>
                 Cardinality({j \in 1..Len(shown.rows) : shown.rows[j].id = id}) = 1
          /\ \A j \in 1..Len(shown.rows) :
               /\ shown.rows[j].id \in DOMAIN meta
               /\ meta[shown.rows[j].id].origin = pageOrigin
               /\ \A f \in DOMAIN shown.rows[j] :
                    shown.rows[j][f] = meta[shown.rows[j].id][f])
  /\ [][\A k \in 1..Len(txQueue) :
          /\ txQueue[k].mode = "readonly" /\ txQueue[k].trigger # 0
          /\ txQueue' = Without(txQueue, k)
          => \A j \in 1..Len(shown'.rows) : shown'.rows[j].id # txQueue[k].trigger]_vars

\* Two snapshots of the page's origin stored, the first deleted again, three
\* refreshes done, and the table shows the second alone
C38_Witness ==
  /\ Settled
  /\ nextId = 3 /\ DOMAIN meta = {2}
  /\ meta[2].origin = pageOrigin
  /\ cmds = 1
  /\ Len(shown.rows) = 1 /\ shown.rows[1].id = 2

=============================================================================
